---- MODULE Spec2Model ----
(***************************************************************************)
(* SimpleSchema front end: the lexer (lexer/lexer.go) and the recursive    *)
(* descent parser (parser/parser.go, parse_expr.go, parse_decl.go).        *)
(*                                                                         *)
(* Runes are one-character strings, an input is a sequence of runes, a     *)
(* token value is a string built by concatenation.  A Go error is a record *)
(* of the sentinel kinds errors.Is would match and of its message.         *)
(***************************************************************************)
EXTENDS Integers, Sequences, FiniteSets, TLC

VARIABLES
    input,  \* the file name and the runes the lexer was built from
    lex,    \* the Lexer struct (the Parser struct holds nothing else)
    pre,    \* the Lexer struct as it was when the last call started
    op,     \* the last call: its name and its arguments
    res,    \* what the last call returned
    prev,   \* op, res and pre of the call before the last one
    punctuations,  \* the package variable of the lexer: the punctuation table
    punctPrec,     \* the package variable of the parser: the precedence table
    twin,   \* a second Parser built from the same input: its Lexer and its calls
    calls,  \* the rules called on the first Parser of a pair, with their results
    frames  \* a Generate of the C generator in progress: its call stack

vars == <<input, lex, pre, op, res, prev, punctuations, punctPrec, twin, calls, frames>>

(***************************************************************************)
(* Bounds of the model.                                                    *)
(***************************************************************************)
MaxGroup == 2

(***************************************************************************)
(* Runes and character classes.                                            *)
(***************************************************************************)
NUL == "<NUL>"
NL == "\n"
TAB == "\t"

Lower == {"a", "b", "c", "d", "e", "f", "g", "h", "i", "j", "k", "l", "m",
          "n", "o", "p", "q", "r", "s", "t", "u", "v", "w", "x", "y", "z"}
Upper == {"A", "B", "C", "D", "E", "F", "G", "H", "I", "J", "K", "L", "M",
          "N", "O", "P", "Q", "R", "S", "T", "U", "V", "W", "X", "Y", "Z"}
BinDigits == {"0", "1"}
OctDigits == {"0", "1", "2", "3", "4", "5", "6", "7"}
DecDigits == OctDigits \cup {"8", "9"}
HexDigits == DecDigits \cup {"a", "b", "c", "d", "e", "f"} \cup {"A", "B", "C", "D", "E", "F"}

IsLetter(r) == r \in Lower \cup Upper
IsDigit(r) == r \in DecDigits
IsSpace(r) == r \in {" ", TAB, NL, "\r", "\f"}

(***************************************************************************)
(* Token tags, locations, tokens.                                          *)
(***************************************************************************)
TokenTagEOF == "EOF"
TokenTagEOL == "EOL"
TokenTagComment == "Comment"
TokenTagDecInt == "DecInt"
TokenTagBinInt == "BinInt"
TokenTagOctInt == "OctInt"
TokenTagHexInt == "HexInt"
TokenTagFloat == "Float"
TokenTagString == "String"
TokenTagWord == "Word"
TokenTagPunct == "Punct"

Location(file, row, col) == [File |-> file, Row |-> row, Col |-> col]
Token(tag, loc, value) == [Tag |-> tag, Loc |-> loc, Value |-> value]
\* Token{} : the zero value of the struct (TokenTagEOF is iota 0)
ZeroToken == Token(TokenTagEOF, Location("", 0, 0), "")
\* lexer.Token{Tag: tag, Value: value}, the patterns handed to expect
Pattern(tag, value) == Token(tag, Location("", 0, 0), value)

(***************************************************************************)
(* Errors.                                                                 *)
(***************************************************************************)
ErrCannotTokenize == "ErrCannotTokenize"
ErrInvalidCharacter == "ErrInvalidCharacter"
ErrMalformedFloatLiteral == "ErrMalformedFloatLiteral"
ErrUnterminatedStringLiteral == "ErrUnterminatedStringLiteral"
ErrMalformedEscapeSequence == "ErrMalformedEscapeSequence"
ErrAlreadyUnread == "ErrAlreadyUnread"
ErrUnbalancedGroup == "ErrUnbalancedGroup"
ErrUnexpectedToken == "ErrUnexpectedToken"
ErrUnclosedParenthesis == "ErrUnclosedParenthesis"
ErrUnclosedSubscription == "ErrUnclosedSubscription"

Nil == [kinds |-> {}, msg |-> ""]
Sentinel(kind) == [kinds |-> {kind}, msg |-> kind]
\* fmt.Errorf("%w: %w", a, b) and errors.Join(a, b): both kinds stay matchable
Wrap(a, b) == [kinds |-> a.kinds \cup b.kinds, msg |-> a.msg \o ": " \o b.msg]
\* errors.Is(err, kind)
Is(err, kind) == kind \in err.kinds

\* a table without the two-bracket entries
punctuationsWithoutBrackets ==
    {"(", ")", "[", "]", "{", "}", ",", ".", ":", "=", "+", "-", "*", "/", "%",
     ">", "<", "^", "~", "!", "|", "&", ":=", "==", "!=", ">=", "<=",
     ">>", "<<", "&&", "||", "=>", "->"}

\* var punctuations as the package initialises it
punctuationsTable ==
    {"(", ")", "[", "]", "{", "}", ",", ".", ":", "=", "+", "-", "*", "/", "%",
     ">", "<", "^", "~", "!", "|", "&", ":=", "==", "!=", ">=", "<=",
     ">>", "<<", "&&", "||", "=>", "->", "[[", "]]"}

\* Token.GetErrorf with a message that has no arguments left to format
GetErrorf(t, text) ==
    [kinds |-> {},
     msg |-> t.Loc.File \o ":" \o ToString(t.Loc.Row) \o ":" \o ToString(t.Loc.Col) \o ": " \o text]

(***************************************************************************)
(* The lexer.                                                              *)
(***************************************************************************)
New(file, content) ==
    [startLoc |-> Location(file, 0, 0),
     endLoc   |-> Location(file, 0, 0),
     current  |-> NUL,
     consumed |-> FALSE,
     reader   |-> content,
     unread   |-> <<>>,
     group    |-> 0]

advanceRune(l) ==
    IF l.reader = <<>>
    THEN [l EXCEPT !.current = NUL, !.consumed = TRUE]
    ELSE LET r == Head(l.reader)
         IN [l EXCEPT !.current = r,
                      !.reader = Tail(l.reader),
                      !.endLoc = IF r = NL
                                 THEN [@ EXCEPT !.Col = 0, !.Row = @ + 1]
                                 ELSE [@ EXCEPT !.Col = @ + 1]]

RECURSIVE skipSpacesOutsideGroup(_)
\* skipSpaces without the group clause of its loop condition
skipSpacesOutsideGroup(l) ==
    IF l.current = " " \/ l.current = TAB
    THEN skipSpacesOutsideGroup(advanceRune([l EXCEPT !.startLoc.Col = @ + 1]))
    ELSE l

RECURSIVE skipSpaces(_)
skipSpaces(l) ==
    IF l.current = " " \/ l.current = TAB \/ (l.group # 0 /\ IsSpace(l.current))
    THEN skipSpaces(advanceRune(
             [l EXCEPT !.startLoc = IF l.current = NL
                                    THEN [@ EXCEPT !.Col = 0, !.Row = @ + 1]
                                    ELSE [@ EXCEPT !.Col = @ + 1]]))
    ELSE l

\* what a classifier returns: the lexer after it, the token and the error
Scanned(l, tok, err) == [l |-> l, tok |-> tok, err |-> err]
NoMatch(l) == Scanned(l, ZeroToken, Sentinel(ErrInvalidCharacter))

isDigitOfBase(r, tag) ==
    CASE tag = TokenTagBinInt -> r \in BinDigits
      [] tag = TokenTagOctInt -> r \in OctDigits
      [] tag \in {TokenTagDecInt, TokenTagFloat} -> r \in DecDigits
      [] tag = TokenTagHexInt -> r \in HexDigits

tryReadEOF(l) ==
    IF l.consumed
    THEN Scanned(l, Token(TokenTagEOF, l.startLoc, ""), Nil)
    ELSE NoMatch(l)

RECURSIVE eolRun(_)
eolRun(l) == IF l.current = NL \/ l.current = ";" THEN eolRun(advanceRune(l)) ELSE l

tryReadEOL(l) ==
    IF l.group # 0 \/ (l.current # NL /\ l.current # ";")
    THEN NoMatch(l)
    ELSE Scanned(eolRun(l), Token(TokenTagEOL, l.startLoc, ""), Nil)

RECURSIVE commentRun(_, _)
commentRun(l, value) ==
    IF l.current # NL /\ l.current # NUL
    THEN commentRun(advanceRune(l), value \o l.current)
    ELSE [l |-> l, value |-> value]

\* tryReadComment that keeps the newline in the value
tryReadCommentWithNewline(l) ==
    IF l.current # "#"
    THEN NoMatch(l)
    ELSE LET body == commentRun(l, "")
         IN IF body.l.current = NL
            THEN Scanned(advanceRune(body.l),
                         Token(TokenTagComment, l.startLoc, body.value \o NL), Nil)
            ELSE Scanned(body.l, Token(TokenTagComment, l.startLoc, body.value), Nil)

tryReadComment(l) ==
    IF l.current # "#"
    THEN NoMatch(l)
    ELSE LET body == commentRun(l, "")
         IN Scanned(IF body.l.current = NL THEN advanceRune(body.l) ELSE body.l,
                    Token(TokenTagComment, l.startLoc, body.value), Nil)

RECURSIVE digitRun(_, _, _)
digitRun(l, tag, value) ==
    IF isDigitOfBase(l.current, tag)
    THEN digitRun(advanceRune(l), tag, value \o l.current)
    ELSE [l |-> l, value |-> value]

RECURSIVE numberLoop(_, _, _, _, _)

\* numberExponent that takes any rune behind the marker and its sign
numberExponentUnchecked(l, tag, value, start) ==
    LET signed == l.current = "-" \/ l.current = "+"
        d == IF signed THEN advanceRune(l) ELSE l
    IN numberLoop(d, tag, TRUE, IF signed THEN value \o l.current ELSE value, start)

\* after the exponent marker: the optional sign, and a decimal digit must follow
numberExponent(l, tag, value, start) ==
    LET signed == l.current = "-" \/ l.current = "+"
        d == IF signed THEN advanceRune(l) ELSE l
    IN IF ~isDigitOfBase(d.current, TokenTagFloat)
       THEN Scanned(d, ZeroToken, Sentinel(ErrMalformedFloatLiteral))
       ELSE numberLoop(d, tag, TRUE, IF signed THEN value \o l.current ELSE value, start)

\* the outer loop of tryReadNumber: d is the lexer and the text after its digits
numberLoop(l, tag, haveExp, value, start) ==
    LET d == digitRun(l, tag, value)
    IN IF d.l.current = "." /\ tag = TokenTagDecInt
       THEN numberLoop(advanceRune(d.l), TokenTagFloat, haveExp, d.value \o ".", start)
       ELSE IF d.l.current = "."
       THEN Scanned(d.l, ZeroToken, Sentinel(ErrMalformedFloatLiteral))
       ELSE IF d.l.current = "e" /\ ~haveExp /\ tag \in {TokenTagDecInt, TokenTagFloat}
       THEN numberExponent(advanceRune(d.l), tag, d.value \o "e", start)
       ELSE Scanned(d.l, Token(tag, start, d.value), Nil)

\* tryReadNumber that writes the radix prefix into the value
tryReadNumberKeepingPrefix(l) ==
    IF ~isDigitOfBase(l.current, TokenTagDecInt)
    THEN NoMatch(l)
    ELSE IF l.current # "0"
    THEN numberLoop(l, TokenTagDecInt, FALSE, "", l.startLoc)
    ELSE LET z == advanceRune(l)
         IN CASE z.current = "b" -> numberLoop(advanceRune(z), TokenTagBinInt, FALSE, "0b", l.startLoc)
              [] z.current = "o" -> numberLoop(advanceRune(z), TokenTagOctInt, FALSE, "0o", l.startLoc)
              [] z.current = "x" -> numberLoop(advanceRune(z), TokenTagHexInt, FALSE, "0x", l.startLoc)
              [] z.current = "." -> numberLoop(advanceRune(z), TokenTagFloat, FALSE, "0.", l.startLoc)
              [] OTHER -> numberLoop(z, TokenTagDecInt, FALSE, "0", l.startLoc)

\* z is the lexer on the rune after a leading 0, where the switch on the prefix looks
tryReadNumber(l) ==
    IF ~isDigitOfBase(l.current, TokenTagDecInt)
    THEN NoMatch(l)
    ELSE IF l.current # "0"
    THEN numberLoop(l, TokenTagDecInt, FALSE, "", l.startLoc)
    ELSE LET z == advanceRune(l)
         IN CASE z.current = "b" -> numberLoop(advanceRune(z), TokenTagBinInt, FALSE, "", l.startLoc)
              [] z.current = "o" -> numberLoop(advanceRune(z), TokenTagOctInt, FALSE, "", l.startLoc)
              [] z.current = "x" -> numberLoop(advanceRune(z), TokenTagHexInt, FALSE, "", l.startLoc)
              [] z.current = "." -> numberLoop(advanceRune(z), TokenTagFloat, FALSE, "0.", l.startLoc)
              [] OTHER -> numberLoop(z, TokenTagDecInt, FALSE, "0", l.startLoc)

HexValue(r) ==
    CASE r \in DecDigits -> CHOOSE n \in 0..9 : ToString(n) = r
      [] r \in {"a", "A"} -> 10
      [] r \in {"b", "B"} -> 11
      [] r \in {"c", "C"} -> 12
      [] r \in {"d", "D"} -> 13
      [] r \in {"e", "E"} -> 14
      [] r \in {"f", "F"} -> 15

\* value.WriteByte(byte(n)) and value.WriteRune(rune(n)): one raw byte, one code point
Byte(n) == "<byte " \o ToString(n % 256) \o ">"
\* WriteRune writes U+FFFD for what is no code point: a surrogate, or a value
\* above U+10FFFF (rune(n) of a larger n is negative or above it)
CodePoint(n) ==
    IF n > 1114111 \/ n \in 55296..57343
    THEN "<U+65533>"
    ELSE "<U+" \o ToString(n) \o ">"

Escaped(l, value, err) == [l |-> l, value |-> value, err |-> err]

RECURSIVE hexRun(_, _, _)
\* the `for range takeNext` loop; l is the lexer on the rune before the next
\* digit, n the value of the digits taken so far
hexRun(l, takeNext, n) ==
    IF takeNext = 0
    THEN [l |-> l, n |-> n, err |-> Nil]
    ELSE IF ~isDigitOfBase(advanceRune(l).current, TokenTagHexInt)
    THEN [l |-> advanceRune(l), n |-> n, err |-> Sentinel(ErrMalformedEscapeSequence)]
    ELSE hexRun(advanceRune(l), takeNext - 1, n * 16 + HexValue(advanceRune(l).current))

SimpleEscapes == {"a", "b", "f", "n", "r", "t", "v", "\\", "'", "\""}

EscapeChar(r) ==
    CASE r = "a" -> "\\a"
      [] r = "b" -> "\\b"
      [] r = "f" -> "\f"
      [] r = "n" -> NL
      [] r = "r" -> "\r"
      [] r = "t" -> TAB
      [] r = "v" -> "\\v"
      [] r = "\\" -> "\\"
      [] r = "'" -> "'"
      [] r = "\"" -> "\""

\* a decoder that takes two digits behind every escape letter
TakeNextOfByte(r) == 2

TakeNext(r) == CASE r = "x" -> 2 [] r = "u" -> 4 [] r = "U" -> 8

\* e is the lexer on the escape letter, h what the hex digits of \x, \u, \U left;
\* a decoded escape leaves the cursor after it
decodeEscapeSequence(l, value) ==
    LET e == advanceRune(l)
    IN IF e.current \in SimpleEscapes
       THEN Escaped(advanceRune(e), value \o EscapeChar(e.current), Nil)
       ELSE IF e.current \notin {"x", "u", "U"}
       THEN Escaped(e, value, Sentinel(ErrMalformedEscapeSequence))
       ELSE LET h == hexRun(e, TakeNext(e.current), 0)
            IN IF h.err # Nil
               THEN Escaped(h.l, value, h.err)
               ELSE Escaped(advanceRune(h.l),
                            value \o (IF TakeNext(e.current) = 2 THEN Byte(h.n) ELSE CodePoint(h.n)),
                            Nil)

RECURSIVE stringLoop(_, _)
\* the loop of tryReadString: n is the lexer after the advanceRune of a turn, e
\* what the escape (if any) left
stringLoop(l, value) ==
    IF l.current = NL \/ l.current = NUL
    THEN Escaped(l, value, Nil)
    ELSE LET n == advanceRune(l)
             e == IF n.current = "\\" THEN decodeEscapeSequence(n, value) ELSE Escaped(n, value, Nil)
         IN IF e.err # Nil
            THEN e
            ELSE IF e.l.current = "\""
            THEN e
            ELSE stringLoop(e.l, e.value \o e.l.current)

\* tryReadString that takes the end of the line for the end of the literal
tryReadStringToEndOfLine(l) ==
    IF l.current # "\""
    THEN NoMatch(l)
    ELSE LET s == stringLoop(l, "")
         IN IF s.err # Nil
            THEN Scanned(s.l, ZeroToken, s.err)
            ELSE Scanned(advanceRune(s.l), Token(TokenTagString, l.startLoc, s.value), Nil)

tryReadString(l) ==
    IF l.current # "\""
    THEN NoMatch(l)
    ELSE LET s == stringLoop(l, "")
         IN IF s.err # Nil
            THEN Scanned(s.l, ZeroToken, s.err)
            ELSE IF s.l.current # "\""
            THEN Scanned(s.l, ZeroToken, Sentinel(ErrUnterminatedStringLiteral))
            ELSE Scanned(advanceRune(s.l), Token(TokenTagString, l.startLoc, s.value), Nil)

RECURSIVE wordRun(_, _)
wordRun(l, value) ==
    IF IsLetter(l.current) \/ IsDigit(l.current) \/ l.current = "_"
    THEN wordRun(advanceRune(l), value \o l.current)
    ELSE [l |-> l, value |-> value]

tryReadWord(l) ==
    IF ~IsLetter(l.current) /\ l.current # "_"
    THEN NoMatch(l)
    ELSE LET w == wordRun(l, "")
         IN Scanned([w.l EXCEPT !.endLoc.Col = l.startLoc.Col + Len(w.value)],
                    Token(TokenTagWord, l.startLoc, w.value), Nil)

\* punctRun that stops behind the first character
punctRunOfOne(l, value) ==
    IF (value \o l.current) \in punctuations
    THEN [l |-> advanceRune(l), value |-> value \o l.current]
    ELSE [l |-> l, value |-> value]

RECURSIVE punctRun(_, _)
punctRun(l, value) ==
    IF (value \o l.current) \in punctuations
    THEN punctRun(advanceRune(l), value \o l.current)
    ELSE [l |-> l, value |-> value]

tryReadPunct(l) ==
    LET p == punctRun(l, "")
    IN IF Len(p.value) = 0
       THEN NoMatch(p.l)
       ELSE Scanned([p.l EXCEPT !.endLoc.Col = l.startLoc.Col + Len(p.value)],
                    Token(TokenTagPunct, l.startLoc, p.value), Nil)

\* classifiers[i](), in the order of the slice in Read
classify(i, l) ==
    CASE i = 1 -> tryReadEOF(l)
      [] i = 2 -> tryReadEOL(l)
      [] i = 3 -> tryReadComment(l)
      [] i = 4 -> tryReadNumber(l)
      [] i = 5 -> tryReadString(l)
      [] i = 6 -> tryReadWord(l)
      [] i = 7 -> tryReadPunct(l)

RECURSIVE classifierLoop(_, _)

\* the body of the loop over the classifiers: c is what classifier i returned
classified(i, c) ==
    IF c.err # Nil /\ ~Is(c.err, ErrInvalidCharacter)
    THEN c
    ELSE IF c.err = Nil
    THEN c
    ELSE classifierLoop(i + 1, c.l)

\* the loop over the classifiers, stepping over a rune no classifier takes
classifierLoopAdvancing(i, l) ==
    IF i > 7
    THEN Scanned(advanceRune(l), ZeroToken,
                 Wrap(Wrap(Sentinel(ErrCannotTokenize), Sentinel(ErrInvalidCharacter)),
                      GetErrorf(ZeroToken, "invalid character: " \o l.current)))
    ELSE classified(i, classify(i, l))

classifierLoop(i, l) ==
    IF i > 7
    THEN Scanned(l, ZeroToken,
                 Wrap(Wrap(Sentinel(ErrCannotTokenize), Sentinel(ErrInvalidCharacter)),
                      GetErrorf(ZeroToken, "invalid character: " \o l.current)))
    ELSE classified(i, classify(i, l))

\* the deferred l.startLoc = l.endLoc
deferred(c) == Scanned([c.l EXCEPT !.startLoc = c.l.endLoc], c.tok, c.err)

\* Read when nothing is pending: first rune, spaces, classifiers
Scan(l) ==
    deferred(classifierLoop(1, skipSpaces(IF l.current = NUL /\ ~l.consumed
                                           THEN advanceRune(l)
                                           ELSE l)))

\* Read that hands out the pending token and forgets to clear the slot
ReadKeepingSlot(l) ==
    IF l.unread # <<>>
    THEN Scanned(l, l.unread[1], Nil)
    ELSE Scan(l)

\* Read that scans instead of handing out a pending EOL inside a group
ReadSkippingPendingEOL(l) ==
    IF l.unread # <<>> /\ ~(l.group # 0 /\ l.unread[1].Tag = TokenTagEOL)
    THEN Scanned([l EXCEPT !.unread = <<>>], l.unread[1], Nil)
    ELSE Scan([l EXCEPT !.unread = <<>>])

Read(l) ==
    IF l.unread # <<>>
    THEN Scanned([l EXCEPT !.unread = <<>>], l.unread[1], Nil)
    ELSE Scan(l)

\* Unread without the check for a pending token
UnreadOverwriting(l, token) == [l |-> [l EXCEPT !.unread = <<token>>], err |-> Nil]

Unread(l, token) ==
    IF l.unread # <<>>
    THEN [l |-> l, err |-> Sentinel(ErrAlreadyUnread)]
    ELSE [l |-> [l EXCEPT !.unread = <<token>>], err |-> Nil]

PushGroup(l) == [l EXCEPT !.group = @ + 1]

\* PopGroup without the check for a zero counter
PopGroupUnchecked(l) == [l |-> [l EXCEPT !.group = @ - 1], err |-> Nil]

PopGroup(l) ==
    IF l.group <= 0
    THEN [l |-> l, err |-> Sentinel(ErrUnbalancedGroup)]
    ELSE [l |-> [l EXCEPT !.group = @ - 1], err |-> Nil]

(***************************************************************************)
(* The syntax tree.  A nil Expr or Decl is NilNode.                        *)
(***************************************************************************)
NilNode == [kind |-> "nil"]
Ident(token) == [kind |-> "Ident", Token |-> token]
Literal(token) == [kind |-> "Literal", Token |-> token]
UnaryOp(operator, operand) == [kind |-> "UnaryOp", Operator |-> operator, Operand |-> operand]
BinaryOp(operator, left, right) ==
    [kind |-> "BinaryOp", Operator |-> operator, Left |-> left, Right |-> right]
Call(callee, args) == [kind |-> "Call", Callee |-> callee, Args |-> args]
Index(base, index) == [kind |-> "Index", Base |-> base, Index |-> index]
Block(decls) == [kind |-> "Block", Decls |-> decls]
StructDef(block) == [kind |-> "StructDef", Block |-> block]
UnionDef(block) == [kind |-> "UnionDef", Block |-> block]
EnumDef(block) == [kind |-> "EnumDef", Block |-> block]
OptionBlock(block) == [kind |-> "OptionBlock", Block |-> block]
Field(name, type, value, options) ==
    [kind |-> "Field", Name |-> name, Type |-> type, Value |-> value, Options |-> options]
PrototypeDef(params, returnType) ==
    [kind |-> "PrototypeDef", Params |-> params, ReturnType |-> returnType]
Annotation(name, value) == [kind |-> "Annotation", Name |-> name, Value |-> value]
AnnotatedDecl(annotations, decl) ==
    [kind |-> "AnnotatedDecl", Annotations |-> annotations, Decl |-> decl]
ModuleDecl(name) == [kind |-> "ModuleDecl", Name |-> name]
TypeDecl(name, type) == [kind |-> "TypeDecl", Name |-> name, Type |-> type]
ProcDecl(name, type) == [kind |-> "ProcDecl", Name |-> name, Type |-> type]
\* a []Expr or []*Annotation result, which is never a nil interface
List(items) == [kind |-> "List", Items |-> items]

(***************************************************************************)
(* The parser.  A Parser holds its Lexer and nothing else, so a rule takes *)
(* the lexer and returns the lexer it leaves, its node and its error.  A   *)
(* rule calls another rule through Run(rule, arg, l).                      *)
(***************************************************************************)
\* var punctPrec as the package initialises it
punctPrecTable ==
    [prec \in 1..9 |->
        CASE prec = 9 -> <<"||">>
          [] prec = 8 -> <<"&&">>
          [] prec = 7 -> <<"|">>
          [] prec = 6 -> <<"^">>
          [] prec = 5 -> <<"&">>
          [] prec = 4 -> <<"==", "!=">>
          [] prec = 3 -> <<"<", ">", "<=", ">=">>
          [] prec = 2 -> <<"+", "-">>
          [] prec = 1 -> <<"*", "/", "%">>]
maxPrec == 9

Parsed(l, node, err) == [l |-> l, node |-> node, err |-> err]
\* return nil, err
Failed(r) == Parsed(r.l, NilNode, r.err)
\* fmt.Errorf("%w ...", kind)
Errorf(kind, text) == [kinds |-> {kind}, msg |-> text]

Punct(value) == Pattern(TokenTagPunct, value)
Word(value) == Pattern(TokenTagWord, value)
EOL == Pattern(TokenTagEOL, "")

\* the loop of expect over its candidates
Matches(token, anyOf) ==
    \E i \in 1..Len(anyOf) :
        /\ token.Tag = anyOf[i].Tag
        /\ (anyOf[i].Value = "" \/ (anyOf[i].Value # "" /\ anyOf[i].Value = token.Value))

\* expect that returns the error of a mismatch without the Unread before it
expectReadConsuming(r, anyOf) ==
    IF r.err # Nil
    THEN r
    ELSE IF Matches(r.tok, anyOf)
    THEN r
    ELSE Scanned(r.l, r.tok, Errorf(ErrUnexpectedToken, "unexpected token " \o r.tok.Value))

\* expect after its p.lex.Read(): r is what the Read returned, u what
\* p.lex.Unread(token) returned
expectRead(r, anyOf) ==
    IF r.err # Nil
    THEN r
    ELSE IF Matches(r.tok, anyOf)
    THEN r
    ELSE LET u == Unread(r.l, r.tok)
         IN IF u.err # Nil
            THEN Scanned(u.l, r.tok, u.err)
            ELSE Scanned(u.l, r.tok,
                         Errorf(ErrUnexpectedToken, "unexpected token " \o r.tok.Value))

expect(l, anyOf) == expectRead(Read(l), anyOf)

RECURSIVE Run(_, _, _)

ParseIdent(l) ==
    LET t == Run("expect", <<Word("")>>, l)
    IN IF t.err # Nil THEN Failed(t) ELSE Parsed(t.l, Ident(t.tok), Nil)

ParseLiteral(l) ==
    LET t == Run("expect",
                 <<Pattern(TokenTagBinInt, ""), Pattern(TokenTagDecInt, ""),
                   Pattern(TokenTagOctInt, ""), Pattern(TokenTagHexInt, ""),
                   Pattern(TokenTagString, ""), Pattern(TokenTagFloat, "")>>,
                 l)
    IN IF t.err # Nil THEN Failed(t) ELSE Parsed(t.l, Literal(t.tok), Nil)

\* parseField: n is its name, c what it found for `:` and t its type (no node
\* without the colon), e, v the same for `=` and the value, o, b for `options`
\* and the block; the field is returned with the error of the last expect
\* parseField that takes a field without the EOL behind it
parseFieldUnterminated(l) ==
    LET n == Run("ParseLookup", 0, l)
    IN IF n.err # Nil THEN Failed(n) ELSE
    LET c == Run("expect", <<Punct(":")>>, n.l)
        t == IF c.err = Nil THEN Run("ParseExpr", 0, c.l) ELSE Parsed(c.l, NilNode, Nil)
    IN IF t.err # Nil THEN Failed(t) ELSE
    LET e == Run("expect", <<Punct("=")>>, t.l)
        v == IF e.err = Nil THEN Run("ParseExpr", 0, e.l) ELSE Parsed(e.l, NilNode, Nil)
    IN IF v.err # Nil THEN Failed(v) ELSE
    LET o == Run("expect", <<Word("options")>>, v.l)
        b == IF o.err = Nil THEN Run("parseBlock", 0, o.l) ELSE Parsed(o.l, NilNode, Nil)
    IN IF b.err # Nil THEN Failed(b) ELSE
    LET end == Run("expect", <<EOL>>, b.l)
    IN Parsed(end.l,
              Field(n.node, t.node, v.node,
                    IF o.err = Nil THEN OptionBlock(b.node) ELSE NilNode),
              Nil)

parseField(l) ==
    LET n == Run("ParseLookup", 0, l)
    IN IF n.err # Nil THEN Failed(n) ELSE
    LET c == Run("expect", <<Punct(":")>>, n.l)
        t == IF c.err = Nil THEN Run("ParseExpr", 0, c.l) ELSE Parsed(c.l, NilNode, Nil)
    IN IF t.err # Nil THEN Failed(t) ELSE
    LET e == Run("expect", <<Punct("=")>>, t.l)
        v == IF e.err = Nil THEN Run("ParseExpr", 0, e.l) ELSE Parsed(e.l, NilNode, Nil)
    IN IF v.err # Nil THEN Failed(v) ELSE
    LET o == Run("expect", <<Word("options")>>, v.l)
        b == IF o.err = Nil THEN Run("parseBlock", 0, o.l) ELSE Parsed(o.l, NilNode, Nil)
    IN IF b.err # Nil THEN Failed(b) ELSE
    LET end == Run("expect", <<EOL>>, b.l)
    IN Parsed(end.l,
              Field(n.node, t.node, v.node,
                    IF o.err = Nil THEN OptionBlock(b.node) ELSE NilNode),
              end.err)

RECURSIVE blockLoopPrepending(_, _)
\* the loop of parseBlock putting each entry before the entries collected so far
blockLoopPrepending(l, decls) ==
    LET f == Run("parseField", 0, l)
    IN IF f.err = Nil THEN blockLoopPrepending(f.l, <<f.node>> \o decls) ELSE
    LET o == Run("expect", <<Word("options")>>, f.l)
    IN IF o.err # Nil
       THEN LET c == Run("expect", <<Punct("}")>>, o.l)
            IN Parsed(c.l, Block(decls), c.err)
       ELSE LET b == Run("parseBlock", 0, o.l)
            IN IF b.err # Nil
               THEN Parsed(b.l, Block(<<>>), b.err)
               ELSE blockLoopPrepending(b.l, <<OptionBlock(b.node)>> \o decls)

RECURSIVE blockLoop(_, _)
\* the loop of parseBlock and the closing brace behind it
blockLoop(l, decls) ==
    LET f == Run("parseField", 0, l)
    IN IF f.err = Nil THEN blockLoop(f.l, Append(decls, f.node)) ELSE
    LET o == Run("expect", <<Word("options")>>, f.l)
    IN IF o.err # Nil
       THEN LET c == Run("expect", <<Punct("}")>>, o.l)
            IN Parsed(c.l, Block(decls), c.err)
       ELSE LET b == Run("parseBlock", 0, o.l)
            IN IF b.err # Nil
               THEN Parsed(b.l, Block(<<>>), b.err)
               ELSE blockLoop(b.l, Append(decls, OptionBlock(b.node)))

\* parseBlock: the EOL behind the opening brace is optional
parseBlock(l) ==
    LET o == Run("expect", <<Punct("{")>>, l)
    IN IF o.err # Nil
       THEN Parsed(o.l, Block(<<>>), o.err)
       ELSE blockLoop(Run("expect", <<EOL>>, o.l).l, <<>>)

ParseStructDef(l) ==
    LET k == Run("expect", <<Word("struct")>>, l)
    IN IF k.err # Nil THEN Failed(k) ELSE
    LET b == Run("parseBlock", 0, k.l)
    IN IF b.err # Nil THEN Failed(b) ELSE Parsed(b.l, StructDef(b.node), Nil)

ParseUnionDef(l) ==
    LET k == Run("expect", <<Word("union")>>, l)
    IN IF k.err # Nil THEN Failed(k) ELSE
    LET b == Run("parseBlock", 0, k.l)
    IN IF b.err # Nil THEN Failed(b) ELSE Parsed(b.l, UnionDef(b.node), Nil)

ParseEnumDef(l) ==
    LET k == Run("expect", <<Word("enum")>>, l)
    IN IF k.err # Nil THEN Failed(k) ELSE
    LET b == Run("parseBlock", 0, k.l)
    IN IF b.err # Nil THEN Failed(b) ELSE Parsed(b.l, EnumDef(b.node), Nil)

RECURSIVE prototypeParamsNamed(_, _)
\* the loop of ParsePrototypeDef keeping each identifier as the name of its
\* parameter
prototypeParamsNamed(l, params) ==
    LET i == Run("ParseIdent", 0, l)
    IN IF i.err # Nil THEN [l |-> i.l, params |-> params] ELSE
    LET c == Run("expect", <<Punct(",")>>, i.l)
        more == Append(params, Field(i.node, NilNode, NilNode, NilNode))
    IN IF c.err # Nil THEN [l |-> c.l, params |-> more] ELSE prototypeParamsNamed(c.l, more)

RECURSIVE prototypeParams(_, _)
\* the loop of ParsePrototypeDef over the parameters: the lexer and the
\* parameters it leaves
prototypeParams(l, params) ==
    LET i == Run("ParseIdent", 0, l)
    IN IF i.err # Nil THEN [l |-> i.l, params |-> params] ELSE
    LET c == Run("expect", <<Punct(",")>>, i.l)
        more == Append(params, Field(NilNode, i.node, NilNode, NilNode))
    IN IF c.err # Nil THEN [l |-> c.l, params |-> more] ELSE prototypeParams(c.l, more)

\* ParsePrototypeDef behind its keyword
prototypeSignature(l) ==
    LET o == Run("expect", <<Punct("(")>>, l)
    IN IF o.err # Nil THEN Failed(o) ELSE
    LET p == prototypeParams(o.l, <<>>)
        c == Run("expect", <<Punct(")")>>, p.l)
    IN IF c.err # Nil THEN Failed(c) ELSE
    LET a == Run("expect", <<Punct("->")>>, c.l)
    IN IF a.err # Nil THEN Failed(a) ELSE
    LET r == Run("ParseExpr", 0, a.l)
    IN IF r.err # Nil THEN Failed(r) ELSE Parsed(r.l, PrototypeDef(p.params, r.node), Nil)

ParsePrototypeDef(l) ==
    LET k == Run("expect", <<Word("proc")>>, l)
    IN IF k.err # Nil THEN Failed(k) ELSE prototypeSignature(k.l)

\* ParseGroup that takes an atom, not an expression, between the parentheses
ParseGroupOfAtom(l) ==
    LET o == Run("expect", <<Punct("(")>>, l)
    IN IF o.err # Nil THEN Failed(o) ELSE
    LET e == Run("ParseAtom", 0, o.l)
    IN IF e.err # Nil THEN Failed(e) ELSE
    LET c == Run("expect", <<Punct(")")>>, e.l)
    IN Parsed(c.l, e.node, c.err)

\* ParseGroup ends with `return expr, err`: the expression and the error of the
\* expect for the closing parenthesis
ParseGroup(l) ==
    LET o == Run("expect", <<Punct("(")>>, l)
    IN IF o.err # Nil THEN Failed(o) ELSE
    LET e == Run("ParseExpr", 0, o.l)
    IN IF e.err # Nil THEN Failed(e) ELSE
    LET c == Run("expect", <<Punct(")")>>, e.l)
    IN Parsed(c.l, e.node, c.err)

atomParsers ==
    <<"ParseGroup", "ParseStructDef", "ParseUnionDef", "ParseEnumDef",
      "ParsePrototypeDef", "ParseLiteral", "ParseIdent">>

RECURSIVE atomLoop(_, _)
\* the loop of ParseAtom: an alternative that fails, with whatever error, hands
\* the lexer as it left it to the next one
atomLoop(i, l) ==
    IF i > Len(atomParsers)
    THEN Parsed(l, NilNode, Errorf(ErrUnexpectedToken, "unexpected token was expecting atom"))
    ELSE LET a == Run(atomParsers[i], 0, l)
         IN IF a.err = Nil THEN Parsed(a.l, a.node, Nil) ELSE atomLoop(i + 1, a.l)

ParseAtom(l) == atomLoop(1, l)

RECURSIVE lookupLoop(_, _)
RECURSIVE lookupLoopRightNested(_, _)
\* the loop of ParseLookup folding to the right: the rest of the chain becomes
\* the right operand
lookupLoopRightNested(l, expr) ==
    LET d == Run("expect", <<Punct(".")>>, l)
    IN IF d.err # Nil THEN Parsed(d.l, expr, Nil) ELSE
    LET r == Run("ParseLookup", 0, d.l)
    IN IF r.err # Nil THEN Failed(r) ELSE Parsed(r.l, BinaryOp(d.tok, expr, r.node), Nil)

\* the loop of ParseLookup
lookupLoop(l, expr) ==
    LET d == Run("expect", <<Punct(".")>>, l)
    IN IF d.err # Nil THEN Parsed(d.l, expr, Nil) ELSE
    LET r == Run("ParseAtom", 0, d.l)
    IN IF r.err # Nil THEN Failed(r) ELSE lookupLoop(r.l, BinaryOp(d.tok, expr, r.node))

ParseLookup(l) ==
    LET a == Run("ParseAtom", 0, l)
    IN IF a.err # Nil THEN Failed(a) ELSE lookupLoop(a.l, a.node)

RECURSIVE argsLoop(_, _)
\* the loop of parseArgs: the lexer and the arguments it leaves
argsLoop(l, args) ==
    LET e == Run("ParseExpr", 0, l)
    IN IF e.err # Nil THEN [l |-> e.l, args |-> args] ELSE
    LET c == Run("expect", <<Punct(",")>>, e.l)
        more == Append(args, e.node)
    IN IF c.err # Nil THEN [l |-> c.l, args |-> more] ELSE argsLoop(c.l, more)

\* parseArgs returning ErrUnclosedParenthesis alone, not wrapped around the
\* error of expect
parseArgsNotWrapping(l) ==
    LET o == Run("expect", <<Punct("(")>>, l)
    IN IF o.err # Nil THEN Parsed(o.l, List(<<>>), o.err) ELSE
    LET a == argsLoop(o.l, <<>>)
        c == Run("expect", <<Punct(")")>>, a.l)
    IN IF c.err # Nil
       THEN Parsed(c.l, List(a.args), Sentinel(ErrUnclosedParenthesis))
       ELSE Parsed(c.l, List(a.args), Nil)

parseArgs(l) ==
    LET o == Run("expect", <<Punct("(")>>, l)
    IN IF o.err # Nil THEN Parsed(o.l, List(<<>>), o.err) ELSE
    LET a == argsLoop(o.l, <<>>)
        c == Run("expect", <<Punct(")")>>, a.l)
    IN IF c.err # Nil
       THEN Parsed(c.l, List(a.args), Wrap(c.err, Sentinel(ErrUnclosedParenthesis)))
       ELSE Parsed(c.l, List(a.args), Nil)

RECURSIVE subscriptLoop(_, _)
RECURSIVE subscriptLoopEndingAtIndex(_, _)
\* the loop of ParseSubscript returning after an index instead of going on
subscriptLoopEndingAtIndex(l, expr) ==
    LET a == Run("parseArgs", 0, l)
    IN IF a.err = Nil THEN subscriptLoopEndingAtIndex(a.l, Call(expr, a.node.Items))
       ELSE IF Is(a.err, ErrUnclosedParenthesis) THEN Failed(a) ELSE
    LET o == Run("expect", <<Punct("[")>>, a.l)
    IN IF o.err # Nil THEN Parsed(o.l, expr, Nil) ELSE
    LET i == Run("ParseExpr", 0, o.l)
    IN IF i.err # Nil THEN Failed(i) ELSE
    LET c == Run("expect", <<Punct("]")>>, i.l)
    IN IF c.err # Nil
       THEN Parsed(c.l, NilNode, Wrap(c.err, Sentinel(ErrUnclosedSubscription)))
       ELSE Parsed(c.l, Index(expr, i.node), Nil)

\* the loop of ParseSubscript
subscriptLoop(l, expr) ==
    LET a == Run("parseArgs", 0, l)
    IN IF a.err = Nil THEN subscriptLoop(a.l, Call(expr, a.node.Items))
       ELSE IF Is(a.err, ErrUnclosedParenthesis) THEN Failed(a) ELSE
    LET o == Run("expect", <<Punct("[")>>, a.l)
    IN IF o.err # Nil THEN Parsed(o.l, expr, Nil) ELSE
    LET i == Run("ParseExpr", 0, o.l)
    IN IF i.err # Nil THEN Failed(i) ELSE
    LET c == Run("expect", <<Punct("]")>>, i.l)
    IN IF c.err # Nil
       THEN Parsed(c.l, NilNode, Wrap(c.err, Sentinel(ErrUnclosedSubscription)))
       ELSE subscriptLoop(c.l, Index(expr, i.node))

ParseSubscript(l) ==
    LET k == Run("ParseLookup", 0, l)
    IN IF k.err # Nil THEN Failed(k) ELSE subscriptLoop(k.l, k.node)

\* ParseUnary that takes a subscript expression, not another unary expression,
\* behind a prefix operator
ParseUnaryOnce(l) ==
    LET o == Run("expect",
                 <<Punct("+"), Punct("-"), Punct("!"), Punct("~"), Punct("*"), Punct("&")>>,
                 l)
    IN IF o.err # Nil THEN Run("ParseSubscript", 0, o.l) ELSE
    LET e == Run("ParseSubscript", 0, o.l)
    IN IF e.err # Nil THEN Failed(e) ELSE Parsed(e.l, UnaryOp(o.tok, e.node), Nil)

\* ParseUnary: whatever error the expect for a prefix operator returns, the
\* rule goes on with ParseSubscript
ParseUnary(l) ==
    LET o == Run("expect",
                 <<Punct("+"), Punct("-"), Punct("!"), Punct("~"), Punct("*"), Punct("&")>>,
                 l)
    IN IF o.err # Nil THEN Run("ParseSubscript", 0, o.l) ELSE
    LET e == Run("ParseUnary", 0, o.l)
    IN IF e.err # Nil THEN Failed(e) ELSE Parsed(e.l, UnaryOp(o.tok, e.node), Nil)

RECURSIVE binaryLoop(_, _, _, _)
RECURSIVE binaryLoopRightOperandSameLevel(_, _, _, _)
\* the loops of parseBinaryPrec with the right operand parsed at prec, not prec - 1
binaryLoopRightOperandSameLevel(prec, i, l, expr) ==
    IF i > Len(punctPrec[prec]) THEN Parsed(l, expr, Nil) ELSE
    LET t == Run("expect", <<Punct(punctPrec[prec][i])>>, l)
    IN IF t.err # Nil /\ ~Is(t.err, ErrUnexpectedToken) THEN Failed(t)
       ELSE IF t.err # Nil THEN binaryLoopRightOperandSameLevel(prec, i + 1, t.l, expr) ELSE
    LET r == Run("parseBinaryPrec", prec, t.l)
    IN IF r.err # Nil THEN Failed(r)
       ELSE binaryLoopRightOperandSameLevel(prec, 1, r.l, BinaryOp(t.tok, expr, r.node))

\* the loops of parseBinaryPrec: i runs over punctPrec[prec]; a match starts over
\* at the first operator, the end of the list without a match ends the outer loop
binaryLoop(prec, i, l, expr) ==
    IF i > Len(punctPrec[prec]) THEN Parsed(l, expr, Nil) ELSE
    LET t == Run("expect", <<Punct(punctPrec[prec][i])>>, l)
    IN IF t.err # Nil /\ ~Is(t.err, ErrUnexpectedToken) THEN Failed(t)
       ELSE IF t.err # Nil THEN binaryLoop(prec, i + 1, t.l, expr) ELSE
    LET r == Run("parseBinaryPrec", prec - 1, t.l)
    IN IF r.err # Nil THEN Failed(r) ELSE binaryLoop(prec, 1, r.l, BinaryOp(t.tok, expr, r.node))

RECURSIVE binaryLevels(_, _, _)
RECURSIVE binaryLevelsReversed(_, _, _)
\* parseBinaryPrec with the levels of the table taken in the opposite order
binaryLevelsReversed(level, prec, e) ==
    IF level > prec
    THEN e
    ELSE IF e.err # Nil
    THEN Failed(e)
    ELSE binaryLevelsReversed(level + 1, prec, binaryLoop(prec + 1 - level, 1, e.l, e.node))

\* parseBinaryPrec(prec) with its recursion on prec - 1 unfolded: the recursion
\* goes down to ParseUnary before anything else runs, and on its way back each
\* level from 1 to prec returns the error of the level below or runs its loops
\* on the left operand the level below returned; e is what level - 1 returned
binaryLevels(level, prec, e) ==
    IF level > prec
    THEN e
    ELSE IF e.err # Nil
    THEN Failed(e)
    ELSE binaryLevels(level + 1, prec, binaryLoop(level, 1, e.l, e.node))

parseBinaryPrec(l, prec) == binaryLevels(1, prec, Run("ParseUnary", 0, l))

ParseBinary(l) == Run("parseBinaryPrec", maxPrec, l)

ParseExpr(l) == Run("ParseBinary", 0, l)

\* parseArgsWithReturnType: the parameter list and the return type of a proc
\* declaration, a prototype without its keyword
parseArgsWithReturnType(l) == prototypeSignature(l)

RECURSIVE annotationsLoop(_, _)
\* the loop of parseAnnotations over the pairs `name = expr`: the lexer, the
\* pairs and the error it leaves
annotationsLoop(l, annotations) ==
    LET n == Run("ParseIdent", 0, l)
    IN IF n.err # Nil THEN [l |-> n.l, annotations |-> annotations, err |-> Nil] ELSE
    LET e == Run("expect", <<Punct("=")>>, n.l)
    IN IF e.err # Nil THEN [l |-> e.l, annotations |-> annotations, err |-> e.err] ELSE
    LET v == Run("ParseExpr", 0, e.l)
    IN IF v.err # Nil THEN [l |-> v.l, annotations |-> annotations, err |-> v.err] ELSE
    LET c == Run("expect", <<Punct(",")>>, v.l)
        more == Append(annotations, Annotation(n.node, v.node))
    IN IF c.err # Nil
       THEN [l |-> c.l, annotations |-> more, err |-> Nil]
       ELSE annotationsLoop(c.l, more)

\* parseAnnotations: `[[`, pairs separated by commas, `]]`; the list is a group
\* of the lexer, entered behind `[[` and left on every way out
parseAnnotations(l) ==
    LET o == Run("expect", <<Punct("[[")>>, l)
    IN IF o.err # Nil THEN Failed(o) ELSE
    LET a == annotationsLoop(PushGroup(o.l), <<>>)
    IN IF a.err # Nil THEN Parsed(PopGroup(a.l).l, NilNode, a.err) ELSE
    LET c == Run("expect", <<Punct("]]")>>, a.l)
    IN IF c.err # Nil
       THEN Parsed(PopGroup(c.l).l, NilNode, c.err)
       ELSE Parsed(PopGroup(c.l).l, List(a.annotations), Nil)

\* ParseDecl that does not ask for the EOL behind the declaration
ParseDeclUnterminated(l) ==
    LET o == Run("expect", <<Word("module"), Word("type"), Word("proc")>>, l)
    IN IF o.err # Nil THEN Failed(o) ELSE
    LET n == Run("ParseIdent", 0, o.l)
    IN IF n.err # Nil THEN Failed(n) ELSE
    LET x == IF o.tok.Value = "type" THEN Run("ParseExpr", 0, n.l)
             ELSE IF o.tok.Value = "proc" THEN Run("parseArgsWithReturnType", 0, n.l)
             ELSE Parsed(n.l, NilNode, Nil)
    IN IF x.err # Nil THEN Failed(x)
       ELSE IF o.tok.Value = "module" THEN Parsed(x.l, ModuleDecl(n.node), Nil)
       ELSE IF o.tok.Value = "proc" THEN Parsed(x.l, ProcDecl(n.node, x.node), Nil)
       ELSE Parsed(x.l, TypeDecl(n.node, x.node), Nil)

\* ParseDecl: o is the keyword, n the name, x the type of a type or proc
ParseDecl(l) ==
    LET o == Run("expect", <<Word("module"), Word("type"), Word("proc")>>, l)
    IN IF o.err # Nil THEN Failed(o) ELSE
    LET n == Run("ParseIdent", 0, o.l)
    IN IF n.err # Nil THEN Failed(n) ELSE
    LET x == IF o.tok.Value = "type" THEN Run("ParseExpr", 0, n.l)
             ELSE IF o.tok.Value = "proc" THEN Run("parseArgsWithReturnType", 0, n.l)
             ELSE Parsed(n.l, NilNode, Nil)
    IN IF x.err # Nil THEN Failed(x) ELSE
    LET e == Run("expect", <<EOL>>, x.l)
    IN IF e.err # Nil THEN Failed(e)
       ELSE IF o.tok.Value = "module" THEN Parsed(e.l, ModuleDecl(n.node), Nil)
       ELSE IF o.tok.Value = "proc" THEN Parsed(e.l, ProcDecl(n.node, x.node), Nil)
       ELSE Parsed(e.l, TypeDecl(n.node, x.node), Nil)

ParseAnnotatedDecl(l) ==
    LET a == Run("parseAnnotations", 0, l)
    IN IF a.err # Nil THEN Failed(a) ELSE
    LET d == Run("ParseDecl", 0, a.l)
    IN IF d.err # Nil THEN Failed(d) ELSE Parsed(d.l, AnnotatedDecl(a.node.Items, d.node), Nil)

Run(rule, arg, l) ==
    CASE rule = "expect" -> expect(l, arg)
      [] rule = "ParseIdent" -> ParseIdent(l)
      [] rule = "ParseLiteral" -> ParseLiteral(l)
      [] rule = "parseField" -> parseField(l)
      [] rule = "parseBlock" -> parseBlock(l)
      [] rule = "ParseStructDef" -> ParseStructDef(l)
      [] rule = "ParseUnionDef" -> ParseUnionDef(l)
      [] rule = "ParseEnumDef" -> ParseEnumDef(l)
      [] rule = "ParsePrototypeDef" -> ParsePrototypeDef(l)
      [] rule = "ParseGroup" -> ParseGroup(l)
      [] rule = "ParseAtom" -> ParseAtom(l)
      [] rule = "ParseLookup" -> ParseLookup(l)
      [] rule = "parseArgs" -> parseArgs(l)
      [] rule = "ParseSubscript" -> ParseSubscript(l)
      [] rule = "ParseUnary" -> ParseUnary(l)
      [] rule = "parseBinaryPrec" -> parseBinaryPrec(l, arg)
      [] rule = "ParseBinary" -> ParseBinary(l)
      [] rule = "ParseExpr" -> ParseExpr(l)
      [] rule = "parseArgsWithReturnType" -> parseArgsWithReturnType(l)
      [] rule = "parseAnnotations" -> parseAnnotations(l)
      [] rule = "ParseDecl" -> ParseDecl(l)
      [] rule = "ParseAnnotatedDecl" -> ParseAnnotatedDecl(l)

\* Parse: the method returns nil and does not touch the lexer
Parse(l) == Parsed(l, NilNode, Nil)

(***************************************************************************)
(* The calls of a session and their results.                               *)
(***************************************************************************)
Invoked(name, args) == [name |-> name, args |-> args]
Result(tok, node, err) == [tok |-> tok, node |-> node, err |-> err]
NoCall == Invoked("New", <<>>)
NoResult == Result(ZeroToken, NilNode, Nil)
History(o, r, l) == [op |-> o, res |-> r, pre |-> l]

FileName == "f"

\* inputs of lexer_test.go and the newline, separator and error cases around them
LexerInputs ==
    {<<>>,
     <<"a">>,
     <<"a", "b", " ", "c", "d">>,
     <<" ", " ", NL>>,
     <<"a", NL, "b">>,
     <<"a", " ", NL, NL, " ", "b">>,
     <<"a", ";", "b">>,
     <<"a", NL, ";", NL, "b">>,
     <<"#", "c", NL, "a">>,
     <<"1", "2", " ", "a">>,
     <<"0", "x", "1", "F">>,
     <<"1", ".", "5">>,
     <<"1", ".", ".", "3">>,
     <<"1", ".", "0", "e">>,
     <<"\"", "a", "\"">>,
     <<"\"", "a">>,
     <<"a", "+">>,
     <<"+", "(">>,
     <<":", "=">>,
     <<"a", "$">>,
     <<"$">>,
     <<"a", NL>>,
     <<" ", TAB, NL, " ", "a">>,
     <<"a", " ", "]", "]">>,
     <<"#">>,
     <<"#", " ", "c">>,
     <<"a", " ", "#", "c", NL, "b">>,
     <<"#", "c", ";", "#", NL, NL>>,
     <<"a", " ">>,
     <<"a", NL, " ", TAB>>}

\* a token no scan of these inputs produces, for callers that push back
\* something they did not read
ForeignToken == Token(TokenTagWord, Location(FileName, 7, 7), "pushed")

\* a call returns: the Lexer it leaves and what it returned
Returned(name, args, l, tok, node, err) ==
    /\ lex' = l
    /\ pre' = lex
    /\ op' = Invoked(name, args)
    /\ res' = Result(tok, node, err)
    /\ UNCHANGED <<input, punctuations, punctPrec, twin, calls, frames>>

\* a call on the Lexer, remembered with the call before it
Step(name, args, l, tok, node, err) ==
    /\ Returned(name, args, l, tok, node, err)
    /\ prev' = History(op, res, pre)

\* a rule of the Parser: it returns a node and an error
NodeStep(name, r) ==
    /\ Returned(name, <<>>, r.l, ZeroToken, r.node, r.err)
    /\ UNCHANGED prev

DoRead == \E r \in {Read(lex)} : Step("Read", <<>>, r.l, r.tok, NilNode, r.err)

DoUnread ==
    \E token \in {res.tok, ForeignToken} :
        \E r \in {Unread(lex, token)} :
            Step("Unread", <<token>>, r.l, ZeroToken, NilNode, r.err)

DoPushGroup ==
    /\ lex.group < MaxGroup
    /\ Step("PushGroup", <<>>, PushGroup(lex), ZeroToken, NilNode, Nil)

DoPopGroup ==
    \E r \in {PopGroup(lex)} : Step("PopGroup", <<>>, r.l, ZeroToken, NilNode, r.err)

\* NewFromString, with the package variables as the package initialises them
InitWith(contents) ==
    /\ punctuations = punctuationsTable
    /\ punctPrec = punctPrecTable
    /\ input \in [file : {FileName}, content : contents]
    /\ lex = New(input.file, input.content)
    /\ pre = lex
    /\ op = NoCall
    /\ res = NoResult
    /\ prev = History(NoCall, NoResult, lex)
    /\ twin = [lex |-> New(input.file, input.content), calls |-> <<>>]
    /\ calls = <<>>
    /\ frames = [stack |-> <<>>, ret |-> <<>>]

Init == InitWith(LexerInputs)

Next == DoRead \/ DoUnread \/ DoPushGroup \/ DoPopGroup

Spec == Init /\ [][Next]_vars

(***************************************************************************)
(* A session of a Parser: the rules and expect, called in any order.       *)
(***************************************************************************)
\* inputs of the parser's tests and the failures around them
ParserInputs ==
    {<<>>,
     <<"a">>,
     <<"1", "0">>,
     <<"(", "a", ")">>,
     <<"(", "a">>,
     <<"(", "a", " ", "b">>,
     <<"(", "a", "(", "1">>,
     <<"1", ".", ".", "3">>,
     <<"a", " ", "+", " ", "b", " ", "*", " ", "c">>,
     <<"a", ".", "b">>,
     <<"a", "(", "1", ",", " ", "2", ")">>,
     <<"a", "[", "1", "]">>,
     <<"a", "[", "1">>,
     <<"-", "a">>,
     <<"+">>,
     <<"s", "t", "r", "u", "c", "t", " ", "{", " ", "a", " ", ":", " ", "i", "n", "t", ";", " ", "}">>,
     <<"s", "t", "r", "u", "c", "t", " ", "{", " ", "a", " ", ":", " ", "i", "n", "t", " ", "}">>,
     <<"p", "r", "o", "c", "(", "i", "n", "t", ")", " ", "-", ">", " ", "i", "n", "t">>,
     <<"m", "o", "d", "u", "l", "e", " ", "a", ";">>,
     <<"t", "y", "p", "e", " ", "a", " ", "i", "n", "t", ";">>,
     <<"t", "y", "p", "e", " ", "a">>,
     <<"p", "r", "o", "c", " ", "f", " ", "(", ")", " ", "-", ">", " ", "v", "o", "i", "d", ";">>,
     <<"[", "[", " ", "a", " ", "=", " ", "b", " ", "]", "]", " ", "t", "y", "p", "e", " ", "c", " ", "d", ";">>,
     <<"[", "[", NL, "a", " ", "=", " ", "b", " ", "]", "]", " ", "t", "y", "p", "e", " ", "c", " ", "d", NL>>,
     <<"a", " ", "b">>,
     <<"a", " ", "$">>}

\* candidate lists the rules hand to expect
ExpectCandidates ==
    {<<Word("")>>,
     <<Punct("(")>>,
     <<EOL>>,
     <<Punct("+"), Punct("-")>>,
     <<Word("struct"), Word("type")>>}

DoExpect ==
    \E anyOf \in ExpectCandidates :
        \E r \in {Run("expect", anyOf, lex)} :
            /\ Returned("expect", <<anyOf>>, r.l, r.tok, NilNode, r.err)
            /\ UNCHANGED prev

\* a call of a rule of the Parser
DoRule(rule) == \E r \in {Run(rule, 0, lex)} : NodeStep(rule, r)

DoParse == \E r \in {Parse(lex)} : NodeStep("Parse", r)

InitParser == InitWith(ParserInputs)

NextParser ==
    \/ DoExpect
    \/ DoRule("ParseIdent")
    \/ DoRule("ParseLiteral")
    \/ DoRule("ParseStructDef")
    \/ DoRule("ParseUnionDef")
    \/ DoRule("ParseEnumDef")
    \/ DoRule("ParsePrototypeDef")
    \/ DoRule("ParseGroup")
    \/ DoRule("ParseAtom")
    \/ DoRule("ParseLookup")
    \/ DoRule("ParseSubscript")
    \/ DoRule("ParseUnary")
    \/ DoRule("ParseBinary")
    \/ DoRule("ParseExpr")
    \/ DoRule("ParseDecl")
    \/ DoRule("ParseAnnotatedDecl")
    \/ DoParse

SpecParser == InitParser /\ [][NextParser]_vars

(***************************************************************************)
(* Two Parsers built from the same file name and input, each called in its *)
(* own order, the calls of one interleaved with the calls of the other.    *)
(***************************************************************************)
MaxCalls == 2

PairInputs ==
    {<<"a", " ", "+", " ", "b">>,
     <<"(", "a">>,
     <<"(", "a", ")", " ", "b">>,
     <<"a", ".", "b", " ", "c">>,
     <<"1", " ", "+", " ", "(", "2">>}

PairRules == {"ParseExpr", "ParseAtom", "ParseGroup"}

Called(rule, r) == [rule |-> rule, node |-> r.node, err |-> r.err]

ParseOnFirst ==
    \E rule \in PairRules :
        \E r \in {Run(rule, 0, lex)} :
            /\ Len(calls) < MaxCalls
            /\ lex' = r.l
            /\ pre' = lex
            /\ op' = Invoked(rule, <<>>)
            /\ res' = Result(ZeroToken, r.node, r.err)
            /\ calls' = Append(calls, Called(rule, r))
            /\ UNCHANGED <<input, prev, punctuations, punctPrec, twin, frames>>

ParseOnTwinWritingTables ==
    \E rule \in PairRules :
        \E r \in {Run(rule, 0, twin.lex)} :
            /\ Len(twin.calls) < MaxCalls
            /\ twin' = [lex |-> r.l, calls |-> Append(twin.calls, Called(rule, r))]
            /\ punctuations' = punctuations \ {"+", "(", "."}
            /\ UNCHANGED <<input, lex, pre, op, res, prev, punctPrec, calls, frames>>

ParseOnTwin ==
    \E rule \in PairRules :
        \E r \in {Run(rule, 0, twin.lex)} :
            /\ Len(twin.calls) < MaxCalls
            /\ twin' = [lex |-> r.l, calls |-> Append(twin.calls, Called(rule, r))]
            /\ UNCHANGED <<input, lex, pre, op, res, prev, punctuations, punctPrec, calls, frames>>

InitPair == InitWith(PairInputs)

NextPair == ParseOnFirst \/ ParseOnTwin

SpecPair == InitPair /\ [][NextPair]_vars

(***************************************************************************)
(* A session of a Parser over expressions: the rules of the expression     *)
(* grammar, called in any order.                                           *)
(***************************************************************************)
\* the operators of punctPrec, as the runes of a source text
BinaryOperators ==
    {<<"|", "|">>, <<"&", "&">>, <<"|">>, <<"^">>, <<"&">>, <<"=", "=">>, <<"!", "=">>,
     <<"<">>, <<">">>, <<"<", "=">>, <<">", "=">>, <<"+">>, <<"-">>, <<"*">>, <<"/">>, <<"%">>}

MaxChain == 4
MaxSubscripts == 2
MaxPrefixes == 2

\* `x p y q z`, `x p (y q z)` and `(x p y) q z` for every two binary operators,
\* `(x)`, the lookups `a`, `a.a`, `a.a.a` ... of up to MaxChain atoms, and `a`
\* followed by up to MaxSubscripts of `()`, `(1)`, `(1, 2)` and `[1]`, the last
\* of them also without its closing parenthesis or bracket, or empty; `a` behind
\* up to MaxPrefixes prefix operators, and one prefix operator before `x p y`,
\* `a.a`, `a(1)` and `a[1]`; the nested index `a[b[0]]`, and the same with a
\* blank between the closing brackets
ExprInputs ==
    LET lookup[n \in 1..MaxChain] == IF n = 1 THEN <<"a">> ELSE lookup[n - 1] \o <<".", "a">>
        suffixes == {<<"(", ")">>, <<"(", "1", ")">>, <<"(", "1", ",", " ", "2", ")">>,
                     <<"[", "1", "]">>}
        subscripted[n \in 0..MaxSubscripts] ==
            IF n = 0 THEN {<<"a">>} ELSE {e \o sfx : e \in subscripted[n - 1], sfx \in suffixes}
        prefixes == {"+", "-", "!", "~", "*", "&"}
        prefixed[n \in 0..MaxPrefixes] ==
            IF n = 0 THEN {<<"a">>} ELSE {<<u>> \o e : u \in prefixes, e \in prefixed[n - 1]}
        unclosed == {<<"(">>, <<"(", "1">>, <<"(", "1", ",">>, <<"(", "1", ",", " ", "2">>,
                     <<"(", "1", " ", "2">>, <<"(", "1", "]">>,
                     <<"[", "1">>, <<"[", "1", " ", "2">>, <<"[", "1", ")">>, <<"[", "]">>}
    IN {<<"x", " ">> \o p \o <<" ", "y", " ">> \o q \o <<" ", "z">> : p, q \in BinaryOperators}
       \cup {<<"x", " ">> \o p \o <<" ", "(", "y", " ">> \o q \o <<" ", "z", ")">> :
                 p, q \in BinaryOperators}
       \cup {<<"(", "x", " ">> \o p \o <<" ", "y", ")", " ">> \o q \o <<" ", "z">> :
                 p, q \in BinaryOperators}
       \cup {<<"(", "x", ")">>}
       \cup {lookup[n] : n \in 1..MaxChain}
       \cup UNION {subscripted[n] : n \in 0..MaxSubscripts}
       \cup {e \o u : e \in UNION {subscripted[n] : n \in 0..(MaxSubscripts - 1)}, u \in unclosed}
       \cup UNION {prefixed[n] : n \in 0..MaxPrefixes}
       \cup {<<u, "x", " ">> \o p \o <<" ", "y">> : u \in prefixes, p \in BinaryOperators}
       \cup {<<"a", "[", "b", "[", "0">> \o close : close \in {<<"]", "]">>, <<"]", " ", "]">>}}
       \cup {<<u, "a">> \o sfx : u \in prefixes,
                                  sfx \in {<<".", "a">>, <<"(", "1", ")">>, <<"[", "1", "]">>}}

InitExpr == InitWith(ExprInputs)

NextExpr ==
    \/ DoRule("ParseGroup")
    \/ DoRule("ParseAtom")
    \/ DoRule("ParseLookup")
    \/ DoRule("ParseSubscript")
    \/ DoRule("ParseUnary")
    \/ DoRule("ParseBinary")
    \/ DoRule("ParseExpr")

SpecExpr == InitExpr /\ [][NextExpr]_vars

(***************************************************************************)
(* A session of a Parser over a definition or a declaration.               *)
(***************************************************************************)
MaxFields == 2
MaxAnnotations == 2
MaxParams == 3

\* `struct`, `union` and `enum` with a block of up to MaxFields entries, each
\* a field (name, type, value and options present or not) or `options {}`,
\* on one line with `;` behind each entry (or nothing behind `options {}`) or
\* one entry a line, and with a last field that has nothing behind it but the
\* closing brace; `module N`,
\* `type N T` and `proc N () -> void` followed by `;`, a newline, nothing or
\* another word; a declaration and a field behind a list of up to
\* MaxAnnotations annotations or behind a list that is not one; `proc (...) -> R`
\* with up to MaxParams parameters
DefInputs ==
    LET keywords == {<<"s", "t", "r", "u", "c", "t">>, <<"u", "n", "i", "o", "n">>,
                     <<"e", "n", "u", "m">>}
        options == <<"o", "p", "t", "i", "o", "n", "s", " ", "{", "}">>
        fields == {<<"a">>,
                   <<"a", " ", ":", " ", "b">>,
                   <<"a", " ", "=", " ", "1">>,
                   <<"a", " ", ":", " ", "b", " ", "=", " ", "1">>,
                   <<"a", " ", ":", " ", "b", " ">> \o options}
        inlineEntries == {f \o <<";", " ">> : f \in fields \cup {options}} \cup {options \o <<" ">>}
        lineEntries == {f \o <<NL>> : f \in fields \cup {options}}
        inline[n \in 0..MaxFields] ==
            IF n = 0 THEN {<<>>} ELSE {b \o e : b \in inline[n - 1], e \in inlineEntries}
        lines[n \in 0..MaxFields] ==
            IF n = 0 THEN {<<>>} ELSE {b \o e : b \in lines[n - 1], e \in lineEntries}
        names == {<<"a">>, <<"n", "a", "m", "e">>, <<"N", "_", "1">>}
        types == {<<"b">>, <<"b", "[", "1", "]">>}
        ends == {<<";">>, <<NL>>, <<>>, <<" ", "x">>}
        pairs[n \in 0..MaxAnnotations] ==
            IF n = 0 THEN <<>>
            ELSE (IF n = 1 THEN <<>> ELSE pairs[n - 1] \o <<",", " ">>) \o <<"a", " ", "=", " ", "b">>
        lists == {IF n = 0 THEN <<"[", "[", "]", "]">>
                  ELSE <<"[", "[", " ">> \o pairs[n] \o <<" ", "]", "]">> : n \in 0..MaxAnnotations}
        broken == {<<"[", "[", " ", "a", " ", "=", " ", "]", "]">>,
                   <<"[", "[", " ", "a", " ", "=", " ", "b">>,
                   <<"[", "[", " ", "a", " ", "b", " ", "]", "]">>}
        params[n \in 0..MaxParams] ==
            IF n = 0 THEN <<>>
            ELSE (IF n = 1 THEN <<>> ELSE params[n - 1] \o <<",", " ">>) \o <<"t">>
        annotated == {<<"t", "y", "p", "e", " ", "c", " ", "d", ";">>,
                      <<"m", "o", "d", "u", "l", "e", " ", "c", ";">>,
                      <<"t", "y", "p", "e", " ", "c">>}
    IN {k \o <<"{", "}">> : k \in keywords}
       \cup {k \o <<" ", "{", " ">> \o b \o <<"}">> :
                k \in keywords, b \in UNION {inline[n] : n \in 0..MaxFields}}
       \cup {k \o <<" ", "{", NL>> \o b \o <<"}">> :
                k \in keywords, b \in UNION {lines[n] : n \in 0..MaxFields}}
       \cup {k \o <<" ", "{", " ">> \o b \o f \o <<" ", "}">> :
                k \in keywords, b \in {<<>>, <<"a", ";", " ">>}, f \in fields}
       \cup {<<"m", "o", "d", "u", "l", "e", " ">> \o n \o e : n \in names, e \in ends}
       \cup {<<"t", "y", "p", "e", " ">> \o n \o <<" ">> \o t \o e :
                n \in names, t \in types, e \in ends}
       \cup {<<"p", "r", "o", "c", " ">> \o n \o <<" ", "(", ")", " ", "-", ">", " ", "v", "o", "i", "d">> \o e :
                n \in names, e \in ends}
       \cup {a \o <<" ">> \o d : a \in lists \cup broken, d \in annotated}
       \cup {<<"s", "t", "r", "u", "c", "t", " ", "{", " ">> \o a \o <<" ", "x", " ", ":", " ", "b", ";", " ", "}">> :
                a \in lists}
       \cup {<<"p", "r", "o", "c", "(">> \o params[n] \o <<")", " ", "-", ">", " ">> \o r :
                n \in 0..MaxParams, r \in {<<"r">>, <<"r", "[", "1", "]">>}}

InitDef == InitWith(DefInputs)

NextDef ==
    \/ DoRule("ParseStructDef")
    \/ DoRule("ParseUnionDef")
    \/ DoRule("ParseEnumDef")
    \/ DoRule("ParsePrototypeDef")
    \/ DoRule("ParseExpr")
    \/ DoRule("ParseDecl")
    \/ DoRule("ParseAnnotatedDecl")

SpecDef == InitDef /\ [][NextDef]_vars

(***************************************************************************)
(* A Lexer over one literal, read to the end.                              *)
(***************************************************************************)
MaxDigits == 3
MaxUnits == 2

\* integer literals of up to MaxDigits digits in the four radixes; decimal
\* literals with a fraction, with a second `.`, with an exponent written `e` or
\* `E`, signed or not, and with what is not a digit behind the marker; literals
\* of another radix with a `.`; string literals of up to MaxUnits units, a unit
\* being a plain character or a backslash and an escape letter, closed or not;
\* string literals with one `\x`, `\u` or `\U` escape and up to 2, 4 or 8 digits
\* behind it, or with another escape letter; one, two and three punctuation
\* characters, and punctuation with a letter, a digit or a space behind it
TokenInputs ==
    LET strings(alphabet) == UNION {[1..n -> alphabet] : n \in 1..MaxDigits}
        units == {<<"a">>} \cup {<<"\\", r>> : r \in SimpleEscapes}
        bodies[n \in 0..MaxUnits] ==
            IF n = 0 THEN {<<>>} ELSE {b \o u : b \in bodies[n - 1], u \in units}
        mantissas == {<<"1">>, <<"0">>, <<"1", "2">>}
        floats == {m \o <<".">> \o f : m \in mantissas, f \in {<<>>, <<"0">>, <<"2", "5">>}}
        markers == {m \o e \o sign : m \in mantissas \cup floats, e \in {<<"e">>, <<"E">>},
                                     sign \in {<<>>, <<"+">>, <<"-">>}}
        hexes(k, alphabet) == UNION {[1..n -> alphabet] : n \in 0..k}
        escapes == {<<"\\", "x">> \o d : d \in hexes(2, {"C", "0", "N"})}
                   \cup {<<"\\", "u">> \o d : d \in hexes(4, {"3", "f", "N"})}
                   \cup {<<"\\", "U">> \o d : d \in hexes(8, {"0", "7"})}
                   \cup {<<"\\", "U">> \o d : d \in {<<"0", "0", "0", "1", "F", "6", "1", "7">>,
                                                     <<"0", "0", "0", "1", "F", "6", "1", "N">>,
                                                     <<"N">>}}
                   \cup {<<"\\", r>> : r \in {"M", "0", "X"}}
        chars == {c \in punctuationsTable : Len(c) = 1}
    IN floats
       \cup {<<c>> : c \in chars}
       \cup {<<c, d>> : c \in chars, d \in chars \cup {"a", "1", " "}}
       \cup {<<c, d, e>> : c \in chars, d \in chars, e \in {"=", ">", "[", "a"}}
       \cup {<<"\"">> \o before \o e \o behind \o <<"\"">> :
                 before \in {<<>>, <<"a">>}, e \in escapes, behind \in {<<>>, <<"b">>}}
       \cup {<<"\"">> \o b \o end : b \in UNION {bodies[n] : n \in 0..MaxUnits},
                                     end \in {<<"\"">>, <<>>, <<NL, "\"">>}}
       \cup {f \o <<".">> \o d : f \in floats, d \in {<<>>, <<"3">>}}
       \cup {p \o d \o <<".">> \o f : p \in {<<"0", "b">>, <<"0", "o">>, <<"0", "x">>},
                                    d \in {<<>>, <<"1">>}, f \in {<<>>, <<"1">>}}
       \cup {m \o d : m \in markers, d \in {<<>>, <<"x">>, <<" ", "1">>, <<"4">>, <<"1", "0">>}}
       \cup {<<>> \o d : d \in strings({"0", "1", "9"})}
       \cup {<<"0", "b">> \o d : d \in strings({"0", "1"})}
       \cup {<<"0", "o">> \o d : d \in strings({"0", "7"})}
       \cup {<<"0", "x">> \o d : d \in strings({"1", "e", "F"})}

SpecTokens == InitWith(TokenInputs) /\ [][DoRead]_vars

(***************************************************************************)
(* The lexer's contract.                                                   *)
(***************************************************************************)
\* the scanner: everything of the Lexer struct but the pushback slot
Scanner(l) == [startLoc |-> l.startLoc, endLoc |-> l.endLoc, current |-> l.current,
               consumed |-> l.consumed, reader |-> l.reader, group |-> l.group]

\* the runes not yet turned into a token: the lookahead and what the reader holds
Pending(l) ==
    IF l.consumed THEN <<>>
    ELSE IF l.current = NUL THEN l.reader
    ELSE <<l.current>> \o l.reader

RECURSIVE DropBlanks(_)
DropBlanks(runes) ==
    IF runes # <<>> /\ Head(runes) \in {" ", TAB} THEN DropBlanks(Tail(runes)) ELSE runes

RECURSIVE DropSpaces(_)
DropSpaces(runes) ==
    IF runes # <<>> /\ IsSpace(Head(runes)) THEN DropSpaces(Tail(runes)) ELSE runes

ServedFromSlot == op.name = "Read" /\ pre.unread # <<>>
ScannedInput == op.name = "Read" /\ pre.unread = <<>>

\* C1: after Unread(t) succeeds the next Read returns exactly t and leaves the
\* scanner as it was, the slot is then empty, and the Read after that is a scan
\* of the input.
C1_UnreadDeliveredOnce ==
    /\ (op.name = "Unread" /\ res.err = Nil) =>
           (lex.unread = <<op.args[1]>> /\ Scanner(lex) = Scanner(pre))
    /\ (op.name = "Read" /\ prev.op.name = "Unread" /\ prev.res.err = Nil) =>
           (res.tok = prev.op.args[1] /\ res.err = Nil)
    /\ ServedFromSlot =>
           (/\ res.tok = pre.unread[1]
            /\ res.err = Nil
            /\ lex.unread = <<>>
            /\ Scanner(lex) = Scanner(pre))
    /\ (op.name = "Read" /\ prev.op.name = "Read" /\ prev.pre.unread # <<>>) =>
           (/\ pre.unread = <<>>
            /\ LET s == Scan(pre)
               IN res.tok = s.tok /\ res.err = s.err /\ Scanner(lex) = Scanner(s.l))

\* a token pushed back by Unread has been delivered by the next Read, and the
\* Read after it has scanned a different token from the input
C1_Witness ==
    /\ op.name = "Read" /\ prev.op.name = "Read" /\ prev.pre.unread = <<ForeignToken>>
    /\ prev.res.tok = ForeignToken
    /\ res.err = Nil /\ res.tok.Tag = TokenTagWord /\ res.tok # ForeignToken

\* C2: Unread while a token is pending returns ErrAlreadyUnread and leaves the
\* pending token in place (the next Read returns it); the slot never holds more
\* than one token.
C2_AlreadyUnread ==
    /\ Len(lex.unread) <= 1
    /\ (op.name = "Unread" /\ pre.unread # <<>>) =>
           (/\ Is(res.err, ErrAlreadyUnread)
            /\ lex = pre
            /\ Read(lex).tok = pre.unread[1])
    /\ (op.name = "Read" /\ prev.op.name = "Unread" /\ prev.pre.unread # <<>>) =>
           res.tok = prev.pre.unread[1]

\* a second, different token was refused and the first one was then read
C2_Witness ==
    /\ op.name = "Read" /\ prev.op.name = "Unread"
    /\ prev.pre.unread # <<>> /\ prev.op.args[1] # prev.pre.unread[1]
    /\ Is(prev.res.err, ErrAlreadyUnread)
    /\ res.tok = prev.pre.unread[1]

\* C8: the nesting counter is never negative; PopGroup at zero returns
\* ErrUnbalancedGroup and leaves it at zero, PopGroup above zero decrements it by
\* one without error, PushGroup increments it by one.
C8_GroupCounter ==
    /\ lex.group >= 0
    /\ (op.name = "PopGroup" /\ pre.group = 0) =>
           (Is(res.err, ErrUnbalancedGroup) /\ lex.group = 0)
    /\ (op.name = "PopGroup" /\ pre.group > 0) =>
           (res.err = Nil /\ lex.group = pre.group - 1)
    /\ op.name = "PushGroup" => lex.group = pre.group + 1

\* the counter went up, came back to zero, and one more PopGroup was refused
C8_Witness ==
    /\ op.name = "PopGroup" /\ pre.group = 0 /\ Is(res.err, ErrUnbalancedGroup)
    /\ prev.op.name = "PopGroup" /\ prev.pre.group = 1 /\ prev.res.err = Nil

\* the next rune a scan meets after blanks is a newline
AtNewline(l) == LET runes == DropBlanks(Pending(l)) IN runes # <<>> /\ Head(runes) = NL

\* C9: with the counter above zero a scan never returns EOL: a newline is
\* skipped like a space and the scan returns what a lexer (in the same group)
\* started on the runes after the white space returns; with the counter at zero
\* the same newline is returned as an EOL token.
C9_NewlineSuppression ==
    /\ (ScannedInput /\ pre.group > 0 /\ res.err = Nil) => res.tok.Tag # TokenTagEOL
    /\ (ScannedInput /\ pre.group > 0 /\ AtNewline(pre)) =>
           LET fresh == [New(input.file, DropSpaces(Pending(pre))) EXCEPT !.group = pre.group]
               after == Read(fresh)
           IN /\ res.tok.Tag = after.tok.Tag
              /\ res.tok.Value = after.tok.Value
              /\ res.err.kinds = after.err.kinds
              /\ Pending(lex) = Pending(after.l)
    /\ (ScannedInput /\ pre.group = 0 /\ AtNewline(pre)) =>
           (res.err = Nil /\ res.tok.Tag = TokenTagEOL)

\* inside a group a scan that met a newline returned the word behind it
C9_Witness ==
    /\ ScannedInput /\ pre.group > 0 /\ AtNewline(pre)
    /\ res.err = Nil /\ res.tok.Tag = TokenTagWord

(***************************************************************************)
(* The parser's contract.                                                  *)
(***************************************************************************)
\* a candidate of the list matches the token: the same tag, and the same value
\* when the candidate has one
Candidate(token, anyOf) ==
    \E i \in DOMAIN anyOf :
        /\ anyOf[i].Tag = token.Tag
        /\ (anyOf[i].Value # "" => anyOf[i].Value = token.Value)

\* C3: expect reads one token; when a candidate matches, the token is consumed
\* and returned without error; otherwise expect returns ErrUnexpectedToken and
\* the token stream is as it was: the next read yields the offending token and
\* leaves the lexer where a read before the call would have left it.
C3_ExpectConsumesOrRestores ==
    (op.name = "expect" /\ Read(pre).err = Nil) =>
        IF Candidate(Read(pre).tok, op.args[1])
        THEN /\ res.err = Nil
             /\ res.tok = Read(pre).tok
             /\ lex = Read(pre).l
             /\ lex.unread = <<>>
        ELSE /\ Is(res.err, ErrUnexpectedToken)
             /\ res.tok = Read(pre).tok
             /\ Read(lex) = Read(pre)

\* expect refused a punctuation no candidate matched, and the next read yields it
C3_Witness ==
    /\ op.name = "expect" /\ Is(res.err, ErrUnexpectedToken)
    /\ res.tok.Tag = TokenTagPunct /\ ~Candidate(res.tok, op.args[1])
    /\ Read(lex).tok = res.tok /\ Read(lex).err = Nil

AtomAlternatives == {atomParsers[i] : i \in DOMAIN atomParsers}

\* C4: an alternative of ParseAtom that fails leaves the token stream where it
\* was when the alternative started, and the node ParseAtom returns is the node
\* of an alternative started where ParseAtom started.
C4_NoPartialSideEffects ==
    /\ (op.name \in AtomAlternatives /\ res.err # Nil) => Read(lex) = Read(pre)
    /\ (op.name = "ParseAtom" /\ res.err = Nil) =>
           \E i \in DOMAIN atomParsers :
               Run(atomParsers[i], 0, pre) = Parsed(lex, res.node, Nil)

\* the kinds of an error other than ErrUnexpectedToken
Fatal(err) == err.kinds \ {ErrUnexpectedToken}

\* the enclosing rule returned with the kinds of f and read nothing after it
FatalKept(f) == Fatal(f.err) # {} => (Fatal(f.err) \subseteq res.err.kinds /\ lex = f.l)

RECURSIVE atomFatal(_, _)

atomFatalTried(i, a) ==
    IF a.err = Nil
    THEN Parsed(a.l, NilNode, Nil)
    ELSE IF Fatal(a.err) # {} THEN a ELSE atomFatal(i + 1, a.l)

\* what the first alternative of ParseAtom to fail with another kind than
\* ErrUnexpectedToken returned, no error when there is none
atomFatal(i, l) ==
    IF i > Len(atomParsers)
    THEN Parsed(l, NilNode, Nil)
    ELSE atomFatalTried(i, Run(atomParsers[i], 0, l))

\* parseArgs as ParseSubscript first calls it, no error when ParseLookup failed
FirstArgs(k) == IF k.err # Nil THEN Parsed(k.l, NilNode, Nil) ELSE Run("parseArgs", 0, k.l)

\* C5: when what ParseAtom, ParseUnary or ParseSubscript tries fails with a kind
\* other than ErrUnexpectedToken, the rule returns at once with an error of that
\* kind and reads no further token.
C5_FatalErrorsPropagate ==
    /\ op.name = "ParseAtom" => FatalKept(atomFatal(1, pre))
    /\ op.name = "ParseUnary" =>
           FatalKept(Run("expect",
                         <<Punct("+"), Punct("-"), Punct("!"), Punct("~"), Punct("*"), Punct("&")>>,
                         pre))
    /\ op.name = "ParseSubscript" => FatalKept(FirstArgs(Run("ParseLookup", 0, pre)))

PublicRules ==
    {"ParseGroup", "ParseAtom", "ParseLookup", "ParseSubscript", "ParseUnary", "ParseBinary",
     "ParseExpr", "ParseDecl", "ParseAnnotatedDecl", "ParseStructDef", "ParsePrototypeDef"}

\* C6: a public rule that returns an error returns a nil node.
C6_NoPartialAST == (op.name \in PublicRules /\ res.err # Nil) => res.node = NilNode

\* C7: Parse returns no error only when the whole input was consumed: nothing
\* but EOF is left to read, and reading it raises no lexical error.
C7_ParseConsumesInput ==
    (op.name = "Parse" /\ res.err = Nil) =>
        (Read(lex).err = Nil /\ Read(lex).tok.Tag = TokenTagEOF)

\* the first n calls on the two Parsers of a pair are calls of the same rules
SameRules(n) == \A j \in 1..n : calls[j].rule = twin.calls[j].rule

RECURSIVE Text(_)
\* the string a run of runes spells
Text(runes) == IF runes = <<>> THEN "" ELSE Head(runes) \o Text(Tail(runes))

\* the level of an operator in the precedence table
Level(p) ==
    CHOOSE prec \in DOMAIN punctPrecTable :
        \E i \in DOMAIN punctPrecTable[prec] : punctPrecTable[prec][i] = Text(p)

\* the first call on the Parser was a call of rule
First(rule) == op.name = rule /\ pre = New(input.file, input.content)

\* the rule returned this node, without error, and left nothing but EOF to read
Returns(node) ==
    /\ res.node = node
    /\ res.err = Nil
    /\ Read(lex).err = Nil /\ Read(lex).tok.Tag = TokenTagEOF

WordAt(col, value) == Ident(Token(TokenTagWord, Location(FileName, 0, col), value))
PunctAt(col, runes) == Token(TokenTagPunct, Location(FileName, 0, col), Text(runes))

\* the source `x p y q z` and the places of its tokens
Chain(p, q) == <<"x", " ">> \o p \o <<" ", "y", " ">> \o q \o <<" ", "z">>
ChainX == WordAt(0, "x")
ChainP(p) == PunctAt(2, p)
ChainY(p) == WordAt(3 + Len(p), "y")
ChainQ(p, q) == PunctAt(5 + Len(p), q)
ChainZ(p, q) == WordAt(6 + Len(p) + Len(q), "z")

\* the two trees of `x p y q z`
RightNested(p, q) == BinaryOp(ChainP(p), ChainX, BinaryOp(ChainQ(p, q), ChainY(p), ChainZ(p, q)))
LeftNested(p, q) == BinaryOp(ChainQ(p, q), BinaryOp(ChainP(p), ChainX, ChainY(p)), ChainZ(p, q))

\* C11: for binary operators p and q with q at a lower level of the precedence
\* table than p, ParseBinary (and ParseExpr) parses `x p y q z` to
\* BinaryOp(p, x, BinaryOp(q, y, z)) and `x q y p z` to BinaryOp(p, BinaryOp(q, x, y), z).
C11_BinaryPrecedence ==
    (First("ParseBinary") \/ First("ParseExpr")) =>
        \A p, q \in BinaryOperators :
            Level(q) < Level(p) =>
                /\ input.content = Chain(p, q) => Returns(RightNested(p, q))
                /\ input.content = Chain(q, p) => Returns(LeftNested(q, p))

\* `x + y * z` was parsed: the root is `+` and its right child is the `*` node
C11_Witness ==
    /\ First("ParseBinary") /\ input.content = Chain(<<"+">>, <<"*">>)
    /\ res.err = Nil
    /\ res.node.Operator.Value = "+" /\ res.node.Right.kind = "BinaryOp"
    /\ res.node.Right.Operator.Value = "*"

\* C12: binary operators of the same level are left-associative, whatever their
\* spellings: `x p y q z` parses to BinaryOp(q, BinaryOp(p, x, y), z), each node
\* with the token of its own operator.
C12_LeftAssociative ==
    (First("ParseBinary") \/ First("ParseExpr")) =>
        \A p, q \in BinaryOperators :
            (Level(p) = Level(q) /\ input.content = Chain(p, q)) =>
                Returns(LeftNested(p, q))

\* `x - y + z` was parsed: the root is `+` at column 6 and its left child is `-`
C12_Witness ==
    /\ First("ParseBinary") /\ input.content = Chain(<<"-">>, <<"+">>)
    /\ res.err = Nil
    /\ res.node.Operator = PunctAt(6, <<"+">>)
    /\ res.node.Left.kind = "BinaryOp" /\ res.node.Left.Operator = PunctAt(2, <<"-">>)

\* a binary node with its operator at a column of the first line
Bin(p, col, left, right) == BinaryOp(PunctAt(col, p), left, right)

\* the sources `x p (y q z)` and `(x p y) q z`, and the tree between the
\* parentheses of each
GroupRight(p, q) == <<"x", " ">> \o p \o <<" ", "(", "y", " ">> \o q \o <<" ", "z", ")">>
GroupRightInner(p, q) ==
    Bin(q, 6 + Len(p), WordAt(4 + Len(p), "y"), WordAt(7 + Len(p) + Len(q), "z"))
GroupLeft(p, q) == <<"(", "x", " ">> \o p \o <<" ", "y", ")", " ">> \o q \o <<" ", "z">>
GroupLeftInner(p) == Bin(p, 3, WordAt(1, "x"), WordAt(4 + Len(p), "y"))

\* C13: `( Expr )` parses to the expression between the parentheses, without a
\* node of its own, and overrides precedence and associativity: for any two
\* binary operators `x p (y q z)` parses to BinaryOp(p, x, BinaryOp(q, y, z)) and
\* `(x p y) q z` to BinaryOp(q, BinaryOp(p, x, y), z).
C13_GroupOverrides ==
    /\ (First("ParseGroup") \/ First("ParseAtom") \/ First("ParseExpr")) =>
           (input.content = <<"(", "x", ")">> => Returns(WordAt(1, "x")))
    /\ \A p, q \in BinaryOperators :
           /\ (First("ParseGroup") /\ input.content = GroupLeft(p, q)) =>
                  (res.node = GroupLeftInner(p) /\ res.err = Nil)
           /\ (First("ParseBinary") \/ First("ParseExpr")) =>
                  /\ input.content = GroupRight(p, q) =>
                         Returns(Bin(p, 2, WordAt(0, "x"), GroupRightInner(p, q)))
                  /\ input.content = GroupLeft(p, q) =>
                         Returns(Bin(q, 7 + Len(p), GroupLeftInner(p),
                                     WordAt(8 + Len(p) + Len(q), "z")))

\* `x * (y + z)` was parsed: the root is `*` and its right child is the `+` node
C13_Witness ==
    /\ First("ParseExpr") /\ input.content = GroupRight(<<"*">>, <<"+">>)
    /\ res.err = Nil
    /\ res.node.Operator.Value = "*" /\ res.node.Left.kind = "Ident"
    /\ res.node.Right.kind = "BinaryOp" /\ res.node.Right.Operator.Value = "+"

RECURSIVE LookupSource(_)
\* the source `a.a. ... .a` of n atoms, atom i at column 2 (i - 1)
LookupSource(n) == IF n = 1 THEN <<"a">> ELSE LookupSource(n - 1) \o <<".", "a">>

RECURSIVE LookupTree(_)
\* the lookup of the first n atoms: its right child is atom n, its left child
\* the lookup of the atoms before it
LookupTree(n) ==
    IF n = 1
    THEN WordAt(0, "a")
    ELSE Bin(<<".">>, 2 * n - 3, LookupTree(n - 1), WordAt(2 * n - 2, "a"))

\* C14: ParseLookup parses `a1 . a2 . ... . an` into BinaryOp nodes with operator
\* `.` nested to the left: the right child of the root is an, its left child the
\* lookup of a1 .. a(n-1); a single atom is returned as it is.
C14_LookupLeftNested ==
    \A n \in 1..MaxChain :
        (First("ParseLookup") /\ input.content = LookupSource(n)) => Returns(LookupTree(n))

\* a lookup of three atoms was parsed: the root's right child is the third atom
\* and its left child the lookup of the first two
C14_Witness ==
    /\ First("ParseLookup") /\ input.content = <<"a", ".", "a", ".", "a">>
    /\ res.err = Nil
    /\ res.node.Right = WordAt(4, "a")
    /\ res.node.Left = Bin(<<".">>, 1, WordAt(0, "a"), WordAt(2, "a"))

\* the subscripts of the sources: a call without, with one and with two
\* arguments, and an index
SubscriptKinds == {"call0", "call1", "call2", "index"}

SubscriptRunes(kind) ==
    CASE kind = "call0" -> <<"(", ")">>
      [] kind = "call1" -> <<"(", "1", ")">>
      [] kind = "call2" -> <<"(", "1", ",", " ", "2", ")">>
      [] kind = "index" -> <<"[", "1", "]">>

SubscriptChains == UNION {[1..n -> SubscriptKinds] : n \in 0..MaxSubscripts}

RECURSIVE SubscriptSource(_)
\* `a` followed by the subscripts of these kinds
SubscriptSource(kinds) ==
    IF kinds = <<>>
    THEN <<"a">>
    ELSE SubscriptSource(SubSeq(kinds, 1, Len(kinds) - 1)) \o SubscriptRunes(kinds[Len(kinds)])

LiteralAt(col, value) == Literal(Token(TokenTagDecInt, Location(FileName, 0, col), value))

\* the node of one subscript that opens at column col, around the expression
\* built so far
Subscripted(kind, col, expr) ==
    CASE kind = "call0" -> Call(expr, <<>>)
      [] kind = "call1" -> Call(expr, <<LiteralAt(col + 1, "1")>>)
      [] kind = "call2" -> Call(expr, <<LiteralAt(col + 1, "1"), LiteralAt(col + 4, "2")>>)
      [] kind = "index" -> Index(expr, LiteralAt(col + 1, "1"))

RECURSIVE SubscriptTree(_)
\* the last subscript wraps the tree of the subscripts before it
SubscriptTree(kinds) ==
    IF kinds = <<>>
    THEN WordAt(0, "a")
    ELSE Subscripted(kinds[Len(kinds)],
                     Len(SubscriptSource(SubSeq(kinds, 1, Len(kinds) - 1))),
                     SubscriptTree(SubSeq(kinds, 1, Len(kinds) - 1)))

\* C15: ParseSubscript chains calls and indices from left to right in any mix:
\* each `( args )` makes the expression built so far the Callee of a Call with
\* the arguments in source order, each `[ Expr ]` makes it the Base of an Index.
C15_SubscriptChains ==
    \A kinds \in SubscriptChains :
        (First("ParseSubscript") /\ input.content = SubscriptSource(kinds)) =>
            Returns(SubscriptTree(kinds))

\* `a[1](1, 2)` was parsed to Call(Index(a, 1), [1, 2])
C15_Witness ==
    /\ First("ParseSubscript")
    /\ input.content = SubscriptSource(<<"index", "call2">>)
    /\ res.err = Nil
    /\ res.node.kind = "Call" /\ Len(res.node.Args) = 2
    /\ res.node.Args[2] = LiteralAt(8, "2")
    /\ res.node.Callee.kind = "Index"
    /\ res.node.Callee.Base = WordAt(0, "a")
    /\ res.node.Callee.Index = LiteralAt(2, "1")

\* `a` with closed subscripts, one fewer than the longest chain
ClosedPrefixes ==
    {SubscriptSource(kinds) : kinds \in UNION {[1..n -> SubscriptKinds] : n \in 0..(MaxSubscripts - 1)}}

\* a call without its closing parenthesis, an index with its expression and
\* without its closing bracket
UnclosedCalls ==
    {<<"(">>, <<"(", "1">>, <<"(", "1", ",">>, <<"(", "1", ",", " ", "2">>,
     <<"(", "1", " ", "2">>, <<"(", "1", "]">>}
UnclosedIndices == {<<"[", "1">>, <<"[", "1", " ", "2">>, <<"[", "1", ")">>}

\* C16: a call whose closing `)` is missing makes ParseSubscript fail with an
\* error that matches ErrUnclosedParenthesis and ErrUnexpectedToken, an index
\* whose closing `]` is missing with one that matches ErrUnclosedSubscription and
\* ErrUnexpectedToken, an empty index with ErrUnexpectedToken and not
\* ErrUnclosedSubscription.
C16_UnclosedSubscripts ==
    \A e \in ClosedPrefixes :
        First("ParseSubscript") =>
            /\ \A u \in UnclosedCalls :
                   input.content = e \o u =>
                       (Is(res.err, ErrUnclosedParenthesis) /\ Is(res.err, ErrUnexpectedToken))
            /\ \A u \in UnclosedIndices :
                   input.content = e \o u =>
                       (Is(res.err, ErrUnclosedSubscription) /\ Is(res.err, ErrUnexpectedToken))
            /\ input.content = e \o <<"[", "]">> =>
                   (Is(res.err, ErrUnexpectedToken) /\ ~Is(res.err, ErrUnclosedSubscription))

\* `a(1)(1, 2` failed at the end of input with both kinds of a call left open
C16_Witness ==
    /\ First("ParseSubscript")
    /\ input.content = <<"a", "(", "1", ")", "(", "1", ",", " ", "2">>
    /\ res.node = NilNode
    /\ res.err.kinds = {ErrUnclosedParenthesis, ErrUnexpectedToken}

PrefixOperators == {"+", "-", "!", "~", "*", "&"}
PrefixChains == UNION {[1..n -> PrefixOperators] : n \in 0..MaxPrefixes}

\* the lexer reads each operator of the sequence as a token of its own: no two
\* neighbours spell a punctuation of the table
ReadOneByOne(ops) == \A i \in 1..(Len(ops) - 1) : (ops[i] \o ops[i + 1]) \notin punctuationsTable

RECURSIVE UnaryTree(_, _)
\* the tree of the operators from the i-th on, before an `a`: operator i is at
\* column i - 1
UnaryTree(ops, i) ==
    IF i > Len(ops)
    THEN WordAt(Len(ops), "a")
    ELSE UnaryOp(PunctAt(i - 1, <<ops[i]>>), UnaryTree(ops, i + 1))

\* C17: ParseUnary parses a sequence of prefix operators before a subscript
\* expression into nested UnaryOp nodes, the first operator outermost, each with
\* its own token, and no operator gives the subscript expression as it is; a
\* prefix operator binds tighter than every binary operator and looser than a
\* call, an index and a lookup.
C17_UnaryNesting ==
    /\ \A ops \in PrefixChains :
           (First("ParseUnary") /\ ReadOneByOne(ops) /\ input.content = ops \o <<"a">>) =>
               Returns(UnaryTree(ops, 1))
    /\ \A u \in PrefixOperators :
           /\ \A p \in BinaryOperators :
                  ((First("ParseBinary") \/ First("ParseExpr"))
                       /\ input.content = <<u, "x", " ">> \o p \o <<" ", "y">>) =>
                      Returns(Bin(p, 3, UnaryOp(PunctAt(0, <<u>>), WordAt(1, "x")),
                                  WordAt(4 + Len(p), "y")))
           /\ (First("ParseUnary") \/ First("ParseExpr")) =>
                  /\ input.content = <<u, "a", ".", "a">> =>
                         Returns(UnaryOp(PunctAt(0, <<u>>),
                                         Bin(<<".">>, 2, WordAt(1, "a"), WordAt(3, "a"))))
                  /\ input.content = <<u, "a", "(", "1", ")">> =>
                         Returns(UnaryOp(PunctAt(0, <<u>>),
                                         Call(WordAt(1, "a"), <<LiteralAt(3, "1")>>)))
                  /\ input.content = <<u, "a", "[", "1", "]">> =>
                         Returns(UnaryOp(PunctAt(0, <<u>>),
                                         Index(WordAt(1, "a"), LiteralAt(3, "1"))))

\* `+-a` was parsed: `+` is the outer node and `-` the inner one
C17_Witness ==
    /\ First("ParseUnary") /\ input.content = <<"+", "-", "a">>
    /\ res.err = Nil
    /\ res.node.kind = "UnaryOp" /\ res.node.Operator = PunctAt(0, <<"+">>)
    /\ res.node.Operand = UnaryOp(PunctAt(1, <<"-">>), WordAt(2, "a"))

(***************************************************************************)
(* Definitions and declarations.                                           *)
(***************************************************************************)
DefKeywords == {<<"s", "t", "r", "u", "c", "t">>, <<"u", "n", "i", "o", "n">>, <<"e", "n", "u", "m">>}
DefRule(k) ==
    CASE Text(k) = "struct" -> "ParseStructDef"
      [] Text(k) = "union" -> "ParseUnionDef"
      [] Text(k) = "enum" -> "ParseEnumDef"
DefNode(k, decls) ==
    CASE Text(k) = "struct" -> StructDef(Block(decls))
      [] Text(k) = "union" -> UnionDef(Block(decls))
      [] Text(k) = "enum" -> EnumDef(Block(decls))

\* the entries of a block: a field with its name alone (n), with a type (t), a
\* value (v), both (tv) or a type and options (to); `options {}` followed by a
\* terminator (o) or by nothing (ob)
FieldForms == {"n", "t", "v", "tv", "to"}
EntryForms == FieldForms \cup {"o", "ob"}
OptionsSource == <<"o", "p", "t", "i", "o", "n", "s", " ", "{", "}">>
EntrySource(form) ==
    CASE form = "n" -> <<"a">>
      [] form = "t" -> <<"a", " ", ":", " ", "b">>
      [] form = "v" -> <<"a", " ", "=", " ", "1">>
      [] form = "tv" -> <<"a", " ", ":", " ", "b", " ", "=", " ", "1">>
      [] form = "to" -> <<"a", " ", ":", " ", "b", " ">> \o OptionsSource
      [] form \in {"o", "ob"} -> OptionsSource

IdentAt(row, col, value) == Ident(Token(TokenTagWord, Location(FileName, row, col), value))
DecIntAt(row, col, value) == Literal(Token(TokenTagDecInt, Location(FileName, row, col), value))

\* the node of an entry, at[p] being the p-th token of the entry
EntryNode(form, at) ==
    IF form \in {"o", "ob"}
    THEN OptionBlock(Block(<<>>))
    ELSE Field(Ident(at[1]),
               IF form \in {"t", "tv", "to"} THEN Ident(at[3]) ELSE NilNode,
               CASE form = "v" -> Literal(at[3])
                 [] form = "tv" -> Literal(at[5])
                 [] OTHER -> NilNode,
               IF form = "to" THEN OptionBlock(Block(<<>>)) ELSE NilNode)

\* the tokens of a field written on the first line from column col on: its
\* name, then the type or the value, then the value behind a type
EntryAt(form, col) ==
    EntryNode(form,
              [p \in {1, 3, 5} |->
                  IF p = 1 THEN Token(TokenTagWord, Location(FileName, 0, col), "a")
                  ELSE IF p = 5 \/ form = "v"
                  THEN Token(TokenTagDecInt, Location(FileName, 0, col + 2 * (p - 1)), "1")
                  ELSE Token(TokenTagWord, Location(FileName, 0, col + 4), "b")])

RECURSIVE TokensFrom(_)
\* the tokens Read returns from a lexer on, up to the end of the input
TokensFrom(l) ==
    IF Read(l).err # Nil \/ Read(l).tok.Tag = TokenTagEOF
    THEN <<>>
    ELSE <<Read(l).tok>> \o TokensFrom(Read(l).l)

\* the number of tokens of an entry with the EOL behind it
EntryTokens(form) ==
    CASE form = "n" -> 2
      [] form \in {"t", "v", "o"} -> 4
      [] form = "tv" -> 6
      [] form = "to" -> 7

RECURSIVE BlockTokens(_)
BlockTokens(forms) ==
    IF forms = <<>> THEN 0 ELSE EntryTokens(Head(forms)) + BlockTokens(Tail(forms))

FieldLists == UNION {[1..n -> FieldForms] : n \in 0..MaxFields}
EntryLists == UNION {[1..n -> EntryForms] : n \in 0..MaxFields}

RECURSIVE InlineBlock(_)
\* the entries on one line, `; ` behind each of them but the bare `options {}`
InlineBlock(forms) ==
    IF forms = <<>>
    THEN <<>>
    ELSE EntrySource(Head(forms)) \o (IF Head(forms) = "ob" THEN <<" ">> ELSE <<";", " ">>)
             \o InlineBlock(Tail(forms))
InlineSource(k, forms) == k \o <<" ", "{", " ">> \o InlineBlock(forms) \o <<"}">>
InlineDecls(k, forms) ==
    [i \in 1..Len(forms) |->
        EntryAt(forms[i], Len(k) + 3 + Len(InlineBlock(SubSeq(forms, 1, i - 1))))]

RECURSIVE LinesBlock(_)
\* the entries one a line, from the line behind the opening brace on
LinesBlock(forms) ==
    IF forms = <<>> THEN <<>> ELSE EntrySource(Head(forms)) \o <<NL>> \o LinesBlock(Tail(forms))
LinesSource(k, forms) == k \o <<" ", "{", NL>> \o LinesBlock(forms) \o <<"}">>
\* the entries of the block as the tokens of the input give them: the keyword,
\* the brace and the EOL behind it come first
LinesDecls(forms) ==
    [i \in 1..Len(forms) |->
        EntryNode(forms[i],
                  [p \in {1, 3, 5} |->
                      TokensFrom(New(input.file, input.content))[
                          3 + BlockTokens(SubSeq(forms, 1, i - 1)) + p]])]

\* C18: a struct, union or enum definition parses to the StructDef, UnionDef or
\* EnumDef whose Block.Decls holds one Field for each field between the braces,
\* in source order, Name, Type, Value and Options being the expressions and
\* the block written and unset where none is written; an empty block gives an
\* empty Decls.
C18_FieldsInOrder ==
    \A k \in DefKeywords :
        (First(DefRule(k)) \/ First("ParseExpr")) =>
            /\ input.content = k \o <<"{", "}">> => Returns(DefNode(k, <<>>))
            /\ \A forms \in FieldLists :
                   /\ input.content = InlineSource(k, forms) =>
                          Returns(DefNode(k, InlineDecls(k, forms)))
                   /\ input.content = LinesSource(k, forms) =>
                          Returns(DefNode(k, LinesDecls(forms)))

\* `struct { a : b; a : b = 1; }` was parsed: the field without a value is the
\* first of the two
C18_Witness ==
    /\ First("ParseStructDef")
    /\ input.content = InlineSource(<<"s", "t", "r", "u", "c", "t">>, <<"t", "tv">>)
    /\ res.err = Nil
    /\ res.node.kind = "StructDef"
    /\ res.node.Block.Decls =
           <<Field(IdentAt(0, 9, "a"), IdentAt(0, 13, "b"), NilNode, NilNode),
             Field(IdentAt(0, 16, "a"), IdentAt(0, 20, "b"), DecIntAt(0, 24, "1"), NilNode)>>

\* C19: inside a Block, `options` followed by a Block is collected as an
\* OptionBlock entry of the enclosing Block, in source order among the fields.
C19_OptionsCollected ==
    \A k \in DefKeywords :
        \A forms \in EntryLists :
            First(DefRule(k)) =>
                /\ input.content = InlineSource(k, forms) =>
                       Returns(DefNode(k, InlineDecls(k, forms)))
                /\ ("ob" \notin {forms[i] : i \in 1..Len(forms)}
                        /\ input.content = LinesSource(k, forms)) =>
                       Returns(DefNode(k, LinesDecls(forms)))

DeclNames == {<<"a">>, <<"n", "a", "m", "e">>, <<"N", "_", "1">>}
ModuleSource(n) == <<"m", "o", "d", "u", "l", "e", " ">> \o n
TypeSource(n, t) == <<"t", "y", "p", "e", " ">> \o n \o <<" ">> \o t
ProcSource(n) ==
    <<"p", "r", "o", "c", " ">> \o n \o <<" ", "(", ")", " ", "-", ">", " ", "v", "o", "i", "d">>
DeclSources(n) ==
    {ModuleSource(n), TypeSource(n, <<"b">>), TypeSource(n, <<"b", "[", "1", "]">>), ProcSource(n)}

AnnotationSource(k) ==
    IF k = 0 THEN <<"[", "[", "]", "]">>
    ELSE <<"[", "[", " ">>
             \o [i \in 1..(7 * k - 2) |->
                    <<"a", " ", "=", " ", "b", ",", " ">>[((i - 1) % 7) + 1]]
             \o <<" ", "]", "]">>
AnnotationPairs(k, col) ==
    [i \in 1..k |-> Annotation(IdentAt(0, col + 7 * i - 4, "a"), IdentAt(0, col + 7 * i, "b"))]
BrokenLists ==
    {<<"[", "[", " ", "a", " ", "=", " ", "]", "]">>,
     <<"[", "[", " ", "a", " ", "=", " ", "b">>,
     <<"[", "[", " ", "a", " ", "b", " ", "]", "]">>}

\* C21 for declarations: ParseAnnotatedDecl on a list of k annotations and a
\* declaration returns the AnnotatedDecl of the k pairs in source order and the
\* declaration, and no node when the list or the declaration fails.
AnnotatedDeclarations ==
    First("ParseAnnotatedDecl") =>
        /\ \A k \in 0..MaxAnnotations :
               /\ input.content = AnnotationSource(k) \o <<" ", "t", "y", "p", "e", " ", "c", " ", "d", ";">> =>
                      Returns(AnnotatedDecl(AnnotationPairs(k, 0),
                                            TypeDecl(IdentAt(0, Len(AnnotationSource(k)) + 6, "c"),
                                                     IdentAt(0, Len(AnnotationSource(k)) + 8, "d"))))
               /\ input.content = AnnotationSource(k) \o <<" ", "m", "o", "d", "u", "l", "e", " ", "c", ";">> =>
                      Returns(AnnotatedDecl(AnnotationPairs(k, 0),
                                            ModuleDecl(IdentAt(0, Len(AnnotationSource(k)) + 8, "c"))))
               /\ input.content = AnnotationSource(k) \o <<" ", "t", "y", "p", "e", " ", "c">> =>
                      (res.node = NilNode /\ res.err # Nil)
        /\ input.content \in {a \o <<" ">> \o d :
                                  a \in BrokenLists,
                                  d \in {<<"t", "y", "p", "e", " ", "c", " ", "d", ";">>,
                                         <<"m", "o", "d", "u", "l", "e", " ", "c", ";">>}} =>
               (res.node = NilNode /\ res.err # Nil)

\* C21 for fields: a field of a block behind a list of k annotations is the
\* AnnotatedDecl of the k pairs and the field.
AnnotatedFields ==
    \A k \in 0..MaxAnnotations :
        (First("ParseStructDef")
            /\ input.content = <<"s", "t", "r", "u", "c", "t", " ", "{", " ">> \o AnnotationSource(k)
                                   \o <<" ", "x", " ", ":", " ", "b", ";", " ", "}">>) =>
            Returns(StructDef(Block(
                <<AnnotatedDecl(AnnotationPairs(k, 9),
                                Field(IdentAt(0, Len(AnnotationSource(k)) + 10, "x"),
                                      IdentAt(0, Len(AnnotationSource(k)) + 14, "b"),
                                      NilNode, NilNode))>>)))

\* C21: a declaration or a block field preceded by `[[ n1 = e1, ..., nk = ek ]]`
\* parses to an AnnotatedDecl whose Annotations are the k pairs in source order
\* and whose Decl is what follows; when the list or the declaration fails, no
\* AnnotatedDecl is returned.
C21_Annotated == AnnotatedDeclarations /\ AnnotatedFields

\* `proc(t, ..., t) -> ` with n parameters
PrototypeSource(n) ==
    <<"p", "r", "o", "c", "(">>
        \o [i \in 1..(IF n = 0 THEN 0 ELSE 3 * n - 2) |-> <<"t", ",", " ">>[((i - 1) % 3) + 1]]
        \o <<")", " ", "-", ">", " ">>
PrototypeParams(n) ==
    [i \in 1..n |-> Field(NilNode, IdentAt(0, 3 * i + 2, "t"), NilNode, NilNode)]

\* C22: ParsePrototypeDef on `proc ( T1, ..., Tn ) -> R` returns the PrototypeDef
\* of exactly n Params in source order, each with Type = Ti and no name, value
\* or options, and of ReturnType = R as parsed.
C22_PrototypeParams ==
    (First("ParsePrototypeDef") \/ First("ParseExpr")) =>
        \A n \in 0..MaxParams :
            /\ input.content = PrototypeSource(n) \o <<"r">> =>
                   Returns(PrototypeDef(PrototypeParams(n),
                                        IdentAt(0, Len(PrototypeSource(n)), "r")))
            /\ input.content = PrototypeSource(n) \o <<"r", "[", "1", "]">> =>
                   Returns(PrototypeDef(PrototypeParams(n),
                                        Index(IdentAt(0, Len(PrototypeSource(n)), "r"),
                                              DecIntAt(0, Len(PrototypeSource(n)) + 2, "1"))))

\* `proc(t, t) -> r` was parsed: two parameters, the first at column 5
C22_Witness ==
    /\ First("ParsePrototypeDef")
    /\ input.content = PrototypeSource(2) \o <<"r">>
    /\ res.err = Nil
    /\ res.node.kind = "PrototypeDef"
    /\ Len(res.node.Params) = 2
    /\ res.node.Params[1].Type = IdentAt(0, 5, "t")
    /\ res.node.Params[2].Type = IdentAt(0, 8, "t")

(***************************************************************************)
(* The tokens of the lexer.                                                *)
(***************************************************************************)
\* what a scan from l on skips before its token: blanks, and newlines too
\* inside a group
Skipped(l) == IF l.group # 0 THEN DropSpaces(Pending(l)) ELSE DropBlanks(Pending(l))

\* the place in the input behind its first n runes: as many rows as newlines
\* among them, as many columns as runes behind the last newline
PlaceBehind(n) ==
    Location(input.file,
             Cardinality({i \in 1..n : input.content[i] = NL}),
             Cardinality({i \in 1..n : \A j \in i..n : input.content[j] # NL}))

\* C23: every token Read scans carries the row and column, counted from zero,
\* of its first character in the input, the EOF token the place behind the last
\* character, whatever comes before it.
C23_TokenLocations ==
    (ScannedInput /\ res.err = Nil) =>
        res.tok.Loc = PlaceBehind(Len(input.content) - Len(Skipped(pre)))

\* the first Read of a Lexer returned this token and the Read behind it gives EOF
ReadsOne(tag, value) ==
    /\ res.err = Nil
    /\ res.tok = Token(tag, Location(input.file, 0, 0), value)
    /\ Read(lex).err = Nil /\ Read(lex).tok.Tag = TokenTagEOF

DigitStrings(alphabet) == UNION {[1..n -> alphabet] : n \in 1..MaxDigits}

\* C24: for an integer literal written as a string of decimal digits, or as
\* `0b`, `0o` or `0x` and digits of that radix, Read returns one token with the
\* tag DecInt, BinInt, OctInt or HexInt and with the digits, without the
\* prefix, as its value.
C24_IntegerLiterals ==
    First("Read") =>
        /\ \A d \in DigitStrings(DecDigits) :
               input.content = <<>> \o d => ReadsOne(TokenTagDecInt, Text(d))
        /\ \A d \in DigitStrings(BinDigits) :
               input.content = <<"0", "b">> \o d => ReadsOne(TokenTagBinInt, Text(d))
        /\ \A d \in DigitStrings(OctDigits) :
               input.content = <<"0", "o">> \o d => ReadsOne(TokenTagOctInt, Text(d))
        /\ \A d \in DigitStrings({"1", "e", "F"}) :
               input.content = <<"0", "x">> \o d => ReadsOne(TokenTagHexInt, Text(d))

\* `0x1eF` was read as the HexInt `1eF`
C24_Witness ==
    /\ First("Read")
    /\ input.content = <<"0", "x", "1", "e", "F">>
    /\ res.err = Nil
    /\ res.tok.Tag = TokenTagHexInt /\ res.tok.Value = "1eF"

Mantissas == {<<"1">>, <<"0">>, <<"1", "2">>}
Floats == {m \o <<".">> \o f : m \in Mantissas, f \in {<<>>, <<"0">>, <<"2", "5">>}}
Signs == {<<>>, <<"+">>, <<"-">>}

\* the first Read of a Lexer failed with this kind of error
FirstReadFails(kind) == res.tok = ZeroToken /\ Is(res.err, kind)

C26_Exponents ==
    First("Read") =>
        \A m \in Mantissas \cup Floats :
            \A e \in {<<"e">>, <<"E">>} :
                \A sign \in Signs :
                    \A d \in {<<"4">>, <<"1", "0">>} :
                        input.content = m \o e \o sign \o d =>
                            /\ res.err = Nil
                            /\ res.tok.Tag \in {TokenTagDecInt, TokenTagFloat}
                            /\ res.tok.Value = Text(input.content)
                            /\ Read(lex).err = Nil /\ Read(lex).tok.Tag = TokenTagEOF

\* what a string literal is made of: a plain character, or a backslash and one
\* of the recognised escape letters
Units == {<<"a">>} \cup {<<"\\", r>> : r \in SimpleEscapes}
UnitChar(u) == IF Len(u) = 1 THEN u[1] ELSE EscapeChar(u[2])
UnitLists == UNION {[1..n -> Units] : n \in 0..MaxUnits}

RECURSIVE UnitsSource(_)
UnitsSource(us) == IF us = <<>> THEN <<>> ELSE Head(us) \o UnitsSource(Tail(us))
RECURSIVE UnitsValue(_)
UnitsValue(us) == IF us = <<>> THEN "" ELSE UnitChar(Head(us)) \o UnitsValue(Tail(us))

\* C27: a string literal ends at the first double quote that is not part of an
\* escape, and every recognised escape contributes its mapped character to the
\* value wherever it stands, behind another escape and before the closing quote
\* included: a literal of units is read as one String token whose value is the
\* characters of its units.
C27_Escapes ==
    First("Read") =>
        \A us \in UnitLists :
            input.content = <<"\"">> \o UnitsSource(us) \o <<"\"">> =>
                ReadsOne(TokenTagString, UnitsValue(us))

\* no escape of the literal stands directly behind another
Apart(us) == \A i \in 1..Len(us) - 1 : ~(Len(us[i]) = 2 /\ Len(us[i + 1]) = 2)

\* the same for literals in which no escape stands directly behind another
EscapesApart ==
    First("Read") =>
        \A us \in UnitLists :
            (/\ input.content = <<"\"">> \o UnitsSource(us) \o <<"\"">>
             /\ Apart(us)) =>
                ReadsOne(TokenTagString, UnitsValue(us))

\* the number of digits the spec gives each numeric escape, and digits to write
\* them with
EscapeDigits(r) == CASE r = "x" -> 2 [] r = "u" -> 4 [] r = "U" -> 8
EscapeAlphabet(r) == CASE r = "x" -> {"C", "0"} [] r = "u" -> {"3", "f"} [] r = "U" -> {"0", "7"}

RECURSIVE HexNumber(_)
HexNumber(d) ==
    IF Len(d) = 0 THEN 0
    ELSE HexNumber(SubSeq(d, 1, Len(d) - 1)) * 16 + HexValue(d[Len(d)])

\* the input has an escape with the letter r
HasEscape(r) ==
    \E i \in 1..Len(input.content) - 1 :
        input.content[i] = "\\" /\ input.content[i + 1] = r

\* C28: `\x` takes exactly 2 hex digits and appends one byte, `\u` exactly 4
\* and `\U` exactly 8 and each appends one code point (a character behind the
\* digits, a hex digit or not, is a character of the string); another escape
\* letter, fewer hex digits than required, or a character that is no hex digit
\* among them, makes Read fail with ErrMalformedEscapeSequence.
C28_NumericEscapes ==
    First("Read") =>
        /\ \A r \in {"x", "u", "U"} :
               HasEscape(r) =>
                   /\ \A d \in [1..EscapeDigits(r) -> EscapeAlphabet(r)] :
                          \A before \in {<<>>, <<"a">>} :
                              \A behind \in {<<>>, <<"b">>} :
                                  input.content = <<"\"">> \o before \o <<"\\", r>> \o d \o behind \o <<"\"">> =>
                                      ReadsOne(TokenTagString,
                                               Text(before)
                                               \o (IF r = "x" THEN Byte(HexNumber(d))
                                                              ELSE CodePoint(HexNumber(d)))
                                               \o Text(behind))
                   /\ \A n \in 0..EscapeDigits(r) :
                          \A d \in [1..n -> EscapeAlphabet(r) \cup {"N"}] :
                              (/\ n < EscapeDigits(r) \/ \E i \in 1..n : d[i] = "N"
                               /\ input.content = <<"\"", "\\", r>> \o d \o <<"\"">>) =>
                                  FirstReadFails(ErrMalformedEscapeSequence)
        /\ \A r \in {"M", "0", "X"} :
               input.content = <<"\"", "\\", r, "\"">> =>
                   FirstReadFails(ErrMalformedEscapeSequence)

\* `"a㼿b"` was read as a, one code point, b
C28_Witness ==
    /\ First("Read")
    /\ input.content = <<"\"", "a", "\\", "u", "3", "f", "3", "f", "b", "\"">>
    /\ res.err = Nil
    /\ res.tok.Tag = TokenTagString
    /\ res.tok.Value = "a<U+16191>b"

PunctChars == {c \in punctuationsTable : Len(c) = 1}

\* the entries of the punctuation table that the runes begin with, and the
\* longest of them
TablePrefixes(runes) ==
    {Text(SubSeq(runes, 1, n)) : n \in 1..Len(runes)} \cap punctuationsTable
LongestPrefix(runes) ==
    CHOOSE v \in TablePrefixes(runes) : \A w \in TablePrefixes(runes) : Len(w) <= Len(v)

\* what is left of the runes behind the first k
Behind(runes, k) == SubSeq(runes, k + 1, Len(runes))

\* C30: on an input that begins with a punctuation character Read returns one
\* Punct token whose value is the longest entry of the punctuation table that
\* the input begins with; punctuation that follows it is the next token, read
\* the same way (`:=` is one token, `+(` is `+` and `(`).
C30_LongestPunct ==
    (First("Read") /\ Len(input.content) > 0 /\ input.content[1] \in PunctChars) =>
        /\ res.err = Nil
        /\ res.tok = Token(TokenTagPunct, Location(input.file, 0, 0),
                           LongestPrefix(input.content))
        /\ LET rest == Behind(input.content, Len(res.tok.Value))
           IN (Len(rest) > 0 /\ rest[1] \in PunctChars) =>
                  /\ Read(lex).err = Nil
                  /\ Read(lex).tok = Token(TokenTagPunct,
                                           Location(input.file, 0, Len(res.tok.Value)),
                                           LongestPrefix(rest))

\* `->=`: the first token is `->`, the next one `=`
C30_Witness ==
    /\ First("Read")
    /\ input.content = <<"-", ">", "=">>
    /\ res.err = Nil
    /\ res.tok.Tag = TokenTagPunct /\ res.tok.Value = "->"
    /\ Read(lex).tok.Value = "="

\* the runes that start a token class
TokenStarts ==
    {NL, ";", "#", "\"", "_"} \cup DecDigits \cup Lower \cup Upper \cup PunctChars

\* a scan that finds, behind what it skips, a rune that starts no token class
AtInvalidCharacter ==
    ScannedInput /\ Skipped(pre) # <<>> /\ Head(Skipped(pre)) \notin TokenStarts

\* such a scan fails with an error that matches ErrInvalidCharacter
InvalidCharacterRefused ==
    AtInvalidCharacter => (res.tok = ZeroToken /\ Is(res.err, ErrInvalidCharacter))

\* C31: when the next character starts no token class Read fails with an error
\* that matches ErrInvalidCharacter and that carries the offending rune and the
\* location in the source at which the rune stands.
C31_InvalidCharacter ==
    /\ InvalidCharacterRefused
    /\ AtInvalidCharacter =>
           res.err.msg =
               Wrap(Wrap(Sentinel(ErrCannotTokenize), Sentinel(ErrInvalidCharacter)),
                    GetErrorf(Token(TokenTagEOF,
                                    PlaceBehind(Len(input.content) - Len(Skipped(pre))),
                                    ""),
                              "invalid character: " \o Head(Skipped(pre)))).msg

(***************************************************************************)
(* The C generator: values that render themselves as C source text.  An    *)
(* Expr or Attr of a Field is the text its Generate returns.               *)
(***************************************************************************)
MaxDepth == 2
MaxFrames == 4

RECURSIVE makeIndent(_)
makeIndent(depth) == IF depth = 0 THEN "" ELSE "  " \o makeIndent(depth - 1)

\* list is AttrList(f.Attrs).GenerateList(): every attribute and a space
GenerateField(f, depth) ==
    LET list[n \in 0..Len(f.Attrs)] ==
            IF n = 0 THEN "" ELSE list[n - 1] \o f.Attrs[n] \o " "
    IN makeIndent(depth) \o list[Len(f.Attrs)] \o f.Type \o " " \o f.Name

\* a FieldBlock is the sequence of its fields; a nil FieldBlock has length 0 and
\* ranges over nothing, as the empty one
GenerateBlock(fb, depth) ==
    LET fields[n \in 0..Len(fb)] ==
            IF n = 0 THEN ""
            ELSE fields[n - 1] \o GenerateField(fb[n], depth + 1) \o ";" \o NL
    IN "{" \o (IF Len(fb) > 0 THEN NL ELSE "") \o fields[Len(fb)] \o makeIndent(depth) \o "}"

\* CGroup.Generate that calls Generate on the wrapped generator
GenerateOfWrap(f) ==
    LET cg == f.stack[Len(f.stack)]
        caller == SubSeq(f.stack, 1, Len(f.stack) - 1)
    IN IF cg.kind = "CWord"
       THEN [stack |-> caller, ret |-> <<cg.Value>>]
       ELSE IF f.ret = <<>>
       THEN [stack |-> Append(f.stack, cg.Wrap), ret |-> <<>>]
       ELSE [stack |-> caller, ret |-> <<"(" \o f.ret[1] \o ")">>]

\* one step of a Generate in progress.  f.stack holds the receivers of the
\* calls of Generate that have not returned, the innermost last; f.ret holds
\* the string the call that returned last gave to its caller.  A CWord
\* returns its Value; a CGroup calls cg.Generate(gc) and, when that call has
\* returned, returns its result in parentheses.
Generate(f) ==
    LET cg == f.stack[Len(f.stack)]
        caller == SubSeq(f.stack, 1, Len(f.stack) - 1)
    IN IF cg.kind = "CWord"
       THEN [stack |-> caller, ret |-> <<cg.Value>>]
       ELSE IF f.ret = <<>>
       THEN [stack |-> Append(f.stack, cg), ret |-> <<>>]
       ELSE [stack |-> caller, ret |-> <<"(" \o f.ret[1] \o ")">>]

\* a call of GenerateBlock on a block of up to MaxFields fields, at a depth of
\* up to MaxDepth
DoGenerateBlock ==
    /\ frames.stack = <<>>
    /\ \E n \in 0..MaxFields :
           \E fb \in [1..n -> [Attrs : {<<>>, <<"packed">>}, Type : {"int"},
                               Name : {"x", "y"}]] :
               \E depth \in 0..MaxDepth :
                   /\ op' = Invoked("GenerateBlock", <<fb, depth>>)
                   /\ res' = [out |-> GenerateBlock(fb, depth)]
    /\ UNCHANGED <<input, lex, pre, prev, punctuations, punctPrec, twin, calls, frames>>

\* a call of Generate on a CWord or on a CGroup, and the steps of the call; the
\* stack of the model holds up to MaxFrames calls
DoGenerate ==
    \/ /\ frames.stack = <<>>
       /\ \E g \in {[kind |-> "CWord", Value |-> "a"],
                    [kind |-> "CGroup", Wrap |-> [kind |-> "CWord", Value |-> "a"]],
                    [kind |-> "CGroup",
                     Wrap |-> [kind |-> "CGroup", Wrap |-> [kind |-> "CWord", Value |-> "b"]]]} :
              /\ op' = Invoked("Generate", <<g>>)
              /\ frames' = [stack |-> <<g>>, ret |-> <<>>]
       /\ res' = [out |-> <<>>]
       /\ UNCHANGED <<input, lex, pre, prev, punctuations, punctPrec, twin, calls>>
    \/ /\ frames.stack # <<>>
       /\ Len(frames.stack) < MaxFrames
       /\ frames' = Generate(frames)
       /\ res' = [out |-> IF frames'.stack = <<>> THEN frames'.ret ELSE <<>>]
       /\ UNCHANGED <<input, lex, pre, op, prev, punctuations, punctPrec, twin, calls>>

SpecGen == InitWith({<<>>}) /\ [][DoGenerateBlock \/ DoGenerate]_vars

(***************************************************************************)
(* Claims about the generator.                                             *)
(***************************************************************************)
\* the call that returned last was GenerateBlock(fb, depth)
BlockGenerated == op.name = "GenerateBlock"
BlockOf == op.args[1]
DepthOf == op.args[2]

\* two spaces for each level
RECURSIVE Indent(_)
Indent(level) == IF level = 0 THEN "" ELSE Indent(level - 1) \o "  "

\* the fields from the n-th on, each at this level, followed by `;` and a newline
RECURSIVE FieldLines(_, _, _)
FieldLines(fb, n, level) ==
    IF n > Len(fb) THEN ""
    ELSE Indent(level) \o GenerateField(fb[n], 0) \o ";" \o NL \o FieldLines(fb, n + 1, level)

\* a block with fields: `{`, a newline, the fields at depth + 1, `}` at depth
FilledBlocks ==
    (BlockGenerated /\ Len(BlockOf) > 0) =>
        res.out = "{" \o NL \o FieldLines(BlockOf, 1, DepthOf + 1) \o Indent(DepthOf) \o "}"

\* C32: GenerateBlock(depth) returns `{}` for a nil or empty block; otherwise
\* `{`, a newline, every field in order at indentation depth + 1 (two spaces a
\* level) followed by `;` and a newline, and the closing `}` indented at depth.
C32_GenerateBlock ==
    /\ (BlockGenerated /\ Len(BlockOf) = 0) => res.out = "{}"
    /\ FilledBlocks

(***************************************************************************)
(* Claims about lines, comments, the end of the input and invalid runes.   *)
(***************************************************************************)
RECURSIVE DropSeparators(_)
DropSeparators(runes) ==
    IF runes # <<>> /\ Head(runes) \in {NL, ";"} THEN DropSeparators(Tail(runes)) ELSE runes

\* a scan outside any group that finds a newline or a `;` behind the blanks
AtSeparators ==
    ScannedInput /\ pre.group = 0 /\ Skipped(pre) # <<>> /\ Head(Skipped(pre)) \in {NL, ";"}

\* the whole run is taken as one EOL token
SeparatorsCollapsed ==
    AtSeparators =>
        /\ res.err = Nil
        /\ res.tok.Tag = TokenTagEOL
        /\ Pending(lex) = DropSeparators(Skipped(pre))

\* C33: outside any group a maximal run of newlines and `;` is returned by Read
\* as exactly one EOL token, located at the first character of the run.
C33_OneEOL ==
    /\ SeparatorsCollapsed
    /\ AtSeparators =>
           res.tok.Loc = PlaceBehind(Len(input.content) - Len(Skipped(pre)))

\* the runes before the first newline
RECURSIVE LineOf(_)
LineOf(runes) ==
    IF runes = <<>> \/ Head(runes) = NL THEN <<>> ELSE <<Head(runes)>> \o LineOf(Tail(runes))

\* a scan that finds a `#` behind what it skips
AtComment == ScannedInput /\ Skipped(pre) # <<>> /\ Head(Skipped(pre)) = "#"

\* C34: a `#` starts a comment that Read returns as one Comment token, whose
\* value is the text from the `#` up to the newline or the end of the input,
\* the newline not included.
C34_Comment ==
    AtComment =>
        /\ res.err = Nil
        /\ res.tok.Tag = TokenTagComment
        /\ res.tok.Value = Text(LineOf(Skipped(pre)))

\* `a #c` and a newline: the second Read returned the comment `#c`
C34_Witness ==
    /\ AtComment
    /\ input.content = <<"a", " ", "#", "c", NL, "b">>
    /\ res.tok.Tag = TokenTagComment /\ res.tok.Value = "#c"

(***************************************************************************)
(* Claims about fields without a terminator and about nested indices.      *)
(***************************************************************************)
\* C35: a field that is not followed by an EOL token before the closing brace
\* is consumed and left out without an error: `struct { a : int }` parses to a
\* StructDef whose Block.Decls is empty, and the fields before such a field
\* are kept.
C35_UnterminatedFieldDropped ==
    \A k \in DefKeywords :
        First(DefRule(k)) =>
            \A forms \in {<<>>, <<"n">>} :
                \A last \in FieldForms :
                    input.content = k \o <<" ", "{", " ">> \o InlineBlock(forms)
                                      \o EntrySource(last) \o <<" ", "}">> =>
                        Returns(DefNode(k, InlineDecls(k, forms)))

\* `struct { a : b }` was parsed to a StructDef without fields
C35_Witness ==
    /\ First("ParseStructDef")
    /\ input.content = <<"s", "t", "r", "u", "c", "t", " ", "{", " ", "a", " ", ":", " ", "b", " ", "}">>
    /\ res.err = Nil
    /\ res.node = StructDef(Block(<<>>))
    /\ Pending(lex) = <<>>

\* C36: two adjacent closing brackets are read as the one token `]]`, so the
\* nested index `a[b[0]]` does not parse to Index(a, Index(b, 0)) but fails with
\* ErrUnclosedSubscription; with a blank between the brackets it parses.
C36_NestedIndex ==
    (First("ParseSubscript") \/ First("ParseExpr")) =>
        /\ input.content = <<"a", "[", "b", "[", "0", "]", "]">> =>
               /\ TokensFrom(New(input.file, input.content))[6] = PunctAt(5, <<"]", "]">>)
               /\ res.node = NilNode
               /\ Is(res.err, ErrUnclosedSubscription)
        /\ input.content = <<"a", "[", "b", "[", "0", "]", " ", "]">> =>
               Returns(Index(WordAt(0, "a"), Index(WordAt(2, "b"), LiteralAt(4, "0"))))

\* `a[b[0]]` was refused by ParseSubscript
C36_Witness ==
    /\ First("ParseSubscript")
    /\ input.content = <<"a", "[", "b", "[", "0", "]", "]">>
    /\ res.node = NilNode
    /\ ErrUnclosedSubscription \in res.err.kinds

(***************************************************************************)
(* Claims about the pushback slot in a group, and about repeated reads.    *)
(***************************************************************************)
\* C37: a Read that is served from the pushback slot returns the pending token
\* and leaves the scanner untouched (lookahead, start and end locations, the
\* end-of-input flag, the reader and the group counter), whatever the group
\* counter is: an EOL token pushed back before PushGroup is still delivered
\* by the next Read.
C37_SlotIgnoresGroup ==
    ServedFromSlot =>
        /\ res.err = Nil
        /\ res.tok = pre.unread[1]
        /\ lex.unread = <<>>
        /\ Scanner(lex) = Scanner(pre)

\* an EOL token was pushed back, PushGroup was called, and Read delivered it
C37_Witness ==
    /\ ServedFromSlot
    /\ prev.op.name = "PushGroup"
    /\ pre.group > 0
    /\ res.tok.Tag = TokenTagEOL
    /\ res.err = Nil

\* a Read that scanned, directly behind a Read that scanned and returned an
\* EOF token
AfterEOF ==
    /\ ScannedInput
    /\ prev.op.name = "Read"
    /\ prev.pre.unread = <<>>
    /\ prev.res.err = Nil
    /\ prev.res.tok.Tag = TokenTagEOF

\* behind an EOF token Read gives an EOF token and no error, wherever it
\* locates it
EOFAgain == AfterEOF => (res.err = Nil /\ res.tok.Tag = TokenTagEOF)

\* C38: once Read has returned an EOF token, a later Read with no Unread in
\* between returns an EOF token again, with the same location and no error.
C38_EOFRepeats ==
    AfterEOF =>
        /\ res.err = Nil
        /\ res.tok.Tag = TokenTagEOF
        /\ res.tok.Loc = prev.res.tok.Loc

\* a Read that scanned and failed because no classifier takes the lookahead
InvalidCharacterFailure(o, r, before) ==
    /\ o.name = "Read"
    /\ before.unread = <<>>
    /\ Is(r.err, ErrInvalidCharacter)

\* C39: an invalid-character failure consumes nothing: the offending rune is
\* still the lookahead behind the failing Read, the end of the input is not
\* reached, and a Read directly behind the failing one fails with the same
\* error and leaves the scanner as it found it.
C39_InvalidCharacterStays ==
    InvalidCharacterFailure(op, res, pre) =>
        /\ ~lex.consumed
        /\ Pending(lex) = Skipped(pre)
        /\ lex.current = Head(Skipped(pre))
        /\ InvalidCharacterFailure(prev.op, prev.res, prev.pre) =>
               /\ res = prev.res
               /\ Scanner(lex) = Scanner(pre)

\* the second of two failing Reads on the same rune
C39_Witness ==
    /\ InvalidCharacterFailure(op, res, pre)
    /\ InvalidCharacterFailure(prev.op, prev.res, prev.pre)
    /\ ErrCannotTokenize \in res.err.kinds
    /\ lex.current = "$"
    /\ ~lex.consumed

(***************************************************************************)
(* Claims about the generator of C expressions.                            *)
(***************************************************************************)
\* a Generate was called on a CGroup
GroupGenerate == op.name = "Generate" /\ op.args[1].kind = "CGroup"

\* C40: CGroup.Generate does not return, whatever the CGroup wraps: every call
\* it makes is a call of Generate on the same CGroup, never on the wrapped
\* generator, so the calls in progress only grow in number, none of them
\* returns, and no text in parentheses is produced.
C40_GroupNeverReturns ==
    GroupGenerate =>
        /\ frames.stack # <<>>
        /\ \A i \in DOMAIN frames.stack : frames.stack[i] = op.args[1]
        /\ frames.ret = <<>>
        /\ res.out = <<>>

\* the calls of Generate on one CGroup fill the stack of the model
C40_Witness ==
    /\ GroupGenerate
    /\ Len(frames.stack) = MaxFrames
    /\ frames.stack[MaxFrames] = op.args[1]
    /\ frames.ret = <<>>

====
